---------------------------- MODULE Spec2Model ----------------------------
(***************************************************************************)
(* Verification model of libvata's inclusion machinery:                    *)
(*   - the explicit upward (bottom-up) antichain inclusion checker         *)
(*     (src/src/explicit_tree_incl_up.cc),                                 *)
(*   - the downward inclusion functor                                      *)
(*     (src/include/vata/down_tree_incl_fctor.hh),                         *)
(*   - the OLRT simulation engine (src/src/explicit_lts_sim.cc).           *)
(***************************************************************************)
EXTENDS Integers, Sequences, FiniteSets, Bags, TLC

(***************************************************************************)
(* Bounds of the explored inputs.                                          *)
(***************************************************************************)
\* transitions of the two automata of an enumerated input, taken together
MaxTrans == 3

\* pairs a preorder may add to the identity (the maximal simulation is always tried)
MaxPreorderPairs == 1

\* largest number of edges of an enumerated LTS
MaxEdges == 3

(***************************************************************************)
(* Generic helpers.                                                        *)
(***************************************************************************)
Range(s) == {s[i] : i \in 1..Len(s)}

Min(S) == CHOOSE x \in S : \A y \in S : x <= y

Max(S) == CHOOSE x \in S : \A y \in S : y <= x

RECURSIVE SortedSeq(_)
\* std::sort of a container of states: the ascending vector of a set
SortedSeq(S) == IF S = {} THEN <<>> ELSE <<Min(S)>> \o SortedSeq(S \ {Min(S)})

(***************************************************************************)
(* Ranked alphabet and automata.  Symbols 0 and 1 are leaves, symbol 2 is  *)
(* binary.  States of the smaller automaton and of the bigger automaton    *)
(* are numbered disjointly, as the callers of the checkers arrange.        *)
(***************************************************************************)
LeafSymbols == {0, 1}

BinarySymbols == {2}

Symbols == LeafSymbols \cup BinarySymbols

Arity(sym) == IF sym \in LeafSymbols THEN 0 ELSE 2

SmallerStates == {0, 1, 2, 6, 7, 8}

BiggerStates == {3, 4, 5, 9, 10, 11}

AllStates == SmallerStates \cup BiggerStates

Leaf(sym, state) == [symbol |-> sym, children |-> <<>>, state |-> state]

Bin(sym, c1, c2, state) == [symbol |-> sym, children |-> <<c1, c2>>, state |-> state]

\* the transitions the enumerated automata are built from: leaves of the
\* given symbols and binary transitions whose parent is not below a child
TransitionsOver(states, leafSyms) ==
  {Leaf(s, p) : s \in leafSyms, p \in states}
  \cup
  {Bin(s, c[1], c[2], c[3]) : s \in BinarySymbols,
      c \in {x \in states \X states \X states : x[3] >= x[1] /\ x[3] >= x[2]}}

\* a total order on transitions, standing for the order of the transition lists
TransKey(t) ==
  IF t.children = <<>> THEN t.symbol * 1000 + t.state
  ELSE t.symbol * 1000 + t.children[1] * 100 + t.children[2] * 10 + t.state

RECURSIVE TransSeq(_)
TransSeq(T) ==
  IF T = {} THEN <<>>
  ELSE LET t == CHOOSE x \in T : \A y \in T : TransKey(x) <= TransKey(y)
       IN <<t>> \o TransSeq(T \ {t})


(***************************************************************************)
(* Inputs of the checkers and state of one run of checkInternal.           *)
(***************************************************************************)
VARIABLES
  smaller,      \* the smaller automaton: [trans, final]
  bigger,       \* the bigger automaton: [trans, final]
  preorder,     \* the relation handed to the caller, a set of pairs of states
  useIdentity,  \* TRUE while the run uses the identity preorder
  firstResult,  \* result of the run with the identity (NoVerdict until it returned)
  upPc,         \* position in checkInternal
  symbol,       \* loop variable of the leaf loop
  processed,    \* Antichain2C processed: key -> list of macro-states
  next,         \* OrderedType next: set of AntichainElem
  q,            \* smaller state of the popped element
  Q,            \* macro-state of the popped element (fixedList.front())
  todo,         \* smaller transitions (with their slot j) left for the popped pair
  result,       \* return value of checkInternal (NoVerdict until it returned)
  description,  \* context description
  descCount     \* number of SetDescription calls of the run

VARIABLES
  popAny,       \* the pop of the main loop is replaced by an arbitrary choice
  unordered,    \* an arbitrary choice took a pair that next.begin() is not
  firstReturn   \* <<v>> once a first call returned v and the call is repeated

repeatVars == <<popAny, unordered, firstReturn>>

VARIABLE
  inserted      \* the pairs <<k, v>> put into processed since its last refine or clear

VARIABLES
  choiceState,  \* ChoiceVector::state_ as positions into the lists (<<>> before build)
  visited       \* the choices the body of the do/while has been run with

choiceVars == <<choiceState, visited>>

VARIABLES
  biggerTypeCache,       \* the macro-state cache: address -> [set, refs, reused],
                         \* refs = 0: free, reused: an evicted macro-state lived here
  lteCache,              \* memoized lte: triples <<address of x, address of y, answer>>
  evalTransitionsCache   \* memoized evalTransitions: <<symbol, slot, address, answer>>

cacheVars == <<biggerTypeCache, lteCache, evalTransitionsCache>>

VARIABLES
  expandAnswers,  \* the answers of expand to a functor called on its own: [p, S] -> BOOLEAN
  cfGen,          \* a SequentialChoiceFunctionGenerator run on its own: currentCf_,
                  \* lastCnt_, range_ and the position in the loop around GetNext
  cfYield         \* the choice functions GetNext has returned, in their order

functorVars == <<expandAnswers, cfGen, cfYield>>

\* what a variable for a returned value holds while nothing has returned: the
\* position of the caller (upPc, downPc, simPc) tells whether the value is there
NoVerdict == FALSE
NoRelation == [size |-> 0, bits |-> {}]


upVars == <<smaller, bigger, preorder, useIdentity, firstResult, upPc, symbol,
            processed, next, q, Q, todo, result, description, descCount>>

(***************************************************************************)
(* Preorder indexes.                                                       *)
(***************************************************************************)
Identity == {<<s, s>> : s \in AllStates}

\* ind[s] = {t : s R t}
IndexOf(R) == [s \in AllStates |-> {t \in AllStates : <<s, t>> \in R}]

\* inv[s] = {t : t R s}
InvIndexOf(R) == [s \in AllStates |-> {t \in AllStates : <<t, s>> \in R}]

ind == IndexOf(preorder)

inv == InvIndexOf(preorder)

(***************************************************************************)
(* Index structures handed to checkInternal.                               *)
(***************************************************************************)
LeafTrans(aut, sym) == {t \in aut.trans : t.symbol = sym /\ t.children = <<>>}

\* SymbolToTransitionListMap: a vector indexed by symbol (entry i is symbol
\* i-1), grown on demand up to the largest leaf symbol of the automaton
LeavesOf(aut) ==
  LET used == {t.symbol : t \in {x \in aut.trans : x.children = <<>>}}
      n == IF used = {} THEN 0 ELSE Max(used) + 1
  IN [i \in 1..n |-> TransSeq(LeafTrans(aut, i - 1))]

smallerLeaves == LeavesOf(smaller)

biggerLeaves == LeavesOf(bigger)

\* smallerIndex[state][symbol][slot]: the smaller transitions having `state`
\* at child slot `slot`, as (transition, slot) pairs in iteration order
RECURSIVE SlotSeq(_, _, _)
SlotSeq(state, sym, j) ==
  IF j >= Arity(sym) THEN <<>>
  ELSE LET ts == TransSeq({t \in smaller.trans :
                     /\ t.symbol = sym /\ Len(t.children) = Arity(sym)
                     /\ Len(t.children) > j /\ t.children[j + 1] = state})
       IN [i \in 1..Len(ts) |-> [trans |-> ts[i], slot |-> j]]
          \o SlotSeq(state, sym, j + 1)

RECURSIVE SmallerIndexSeq(_, _)
SmallerIndexSeq(state, sym) ==
  IF sym \notin Symbols THEN <<>>
  ELSE SlotSeq(state, sym, 0) \o SmallerIndexSeq(state, sym + 1)

(***************************************************************************)
(* Antichain1C: a set of states.                                           *)
(***************************************************************************)
AC1Contains(data, S) == data \cap S # {}

AC1Refine(data, S) == data \ S

AC1Insert(data, s) == data \cup {s}

(***************************************************************************)
(* checkInternal: comparers and transition evaluation.                     *)
(***************************************************************************)
checkIntersection(s1, s2) == s1 \cap s2 # {}

noncachedLte(x, y) ==
  \A i \in 1..Len(x) : checkIntersection(ind[x[i]], Range(y))

\* lte with the test of the two pointers inverted
lteDistinct(x, y) == IF x = y THEN FALSE ELSE noncachedLte(x, y)

lte(x, y) == IF x = y THEN TRUE ELSE noncachedLte(x, y)

\* gte without the exchange of its arguments
gteSame(x, y) == lte(x, y)

gte(x, y) == lte(y, x)

\* SetComparerSmaller::operator(): every state of rhs is below some state of lhs
SetComparerSmaller(lhs, rhs) ==
  \A rhsState \in rhs : \E lhsState \in lhs : <<rhsState, lhsState>> \in preorder

\* SetComparerBigger::operator(): every state of lhs is below some state of rhs
SetComparerBigger(lhs, rhs) ==
  \A lhsState \in lhs : \E rhsState \in rhs : <<lhsState, rhsState>> \in preorder

\* the comparer objects the antichains are called with
Compare(cmp, x, y) ==
  CASE cmp = "lte" -> lte(x, y)
    [] cmp = "gte" -> gte(x, y)
    [] cmp = "smallerComparer" -> SetComparerSmaller(x, y)
    [] cmp = "biggerComparer" -> SetComparerBigger(x, y)

(***************************************************************************)
(* Antichain2C: key -> list of macro-states (an empty list is an absent    *)
(* key).  contains and refine hand the stored value to the comparer first   *)
(* and the new value second.                                               *)
(***************************************************************************)
EmptyAC2 == [k \in SmallerStates |-> <<>>]

AC2Keys(K) == K \cap SmallerStates

AC2Contains(ac, K, v, cmp) ==
  \E k \in AC2Keys(K) : \E i \in 1..Len(ac[k]) : Compare(cmp, ac[k][i], v)

\* the (key, value) pairs refine erases
AC2Erased(ac, K, v, cmp) ==
  UNION {{[smaller |-> k, bigger |-> ac[k][i]] :
            i \in {x \in 1..Len(ac[k]) : Compare(cmp, ac[k][x], v)}} : k \in AC2Keys(K)}

AC2Refine(ac, K, v, cmp) ==
  [k \in SmallerStates |->
     IF k \in K THEN SelectSeq(ac[k], LAMBDA x : ~Compare(cmp, x, v)) ELSE ac[k]]

AC2Insert(ac, k, v) == [ac EXCEPT ![k] = Append(@, v)]

AC2Lookup(ac, k) == ac[k]

\* the bigger transitions with symbol `sym` whose child at slot i lies in `states`
evalTransitions(sym, i, states) ==
  {t \in bigger.trans :
     /\ t.symbol = sym
     /\ Len(t.children) > i
     /\ t.children[i + 1] \in Range(states)}

RECURSIVE PostFoldUnrefined(_, _, _)
\* the fold without post.refine
PostFoldUnrefined(ts, data, accepting) ==
  IF ts = <<>> THEN [data |-> data, accepting |-> accepting]
  ELSE LET s == Head(ts).state IN
       IF AC1Contains(data, ind[s]) THEN PostFoldUnrefined(Tail(ts), data, accepting)
       ELSE PostFoldUnrefined(Tail(ts), AC1Insert(data, s),
                              accepting \/ s \in bigger.final)

RECURSIVE PostFoldSwapped(_, _, _)
\* the fold with the two preorder indexes exchanged
PostFoldSwapped(ts, data, accepting) ==
  IF ts = <<>> THEN [data |-> data, accepting |-> accepting]
  ELSE LET s == Head(ts).state IN
       IF AC1Contains(data, inv[s]) THEN PostFoldSwapped(Tail(ts), data, accepting)
       ELSE PostFoldSwapped(Tail(ts), AC1Insert(AC1Refine(data, ind[s]), s),
                            accepting \/ s \in bigger.final)

RECURSIVE PostFoldFirst(_, _, _)
\* the fold with isAccepting assigned from the first kept state only
PostFoldFirst(ts, data, accepting) ==
  IF ts = <<>> THEN [data |-> data, accepting |-> accepting]
  ELSE LET s == Head(ts).state IN
       IF AC1Contains(data, ind[s]) THEN PostFoldFirst(Tail(ts), data, accepting)
       ELSE PostFoldFirst(Tail(ts), AC1Insert(AC1Refine(data, inv[s]), s),
                          IF data = {} THEN s \in bigger.final ELSE accepting)

RECURSIVE PostFold(_, _, _)
\* fold of the parent states of a transition list through the Antichain1C post
PostFold(ts, data, accepting) ==
  IF ts = <<>> THEN [data |-> data, accepting |-> accepting]
  ELSE LET s == Head(ts).state IN
       IF AC1Contains(data, ind[s]) THEN PostFold(Tail(ts), data, accepting)
       ELSE PostFold(Tail(ts), AC1Insert(AC1Refine(data, inv[s]), s),
                     accepting \/ s \in bigger.final)

\* the size test with <= for <
LeavesSizesNotBigger == Len(biggerLeaves) <= Len(smallerLeaves)

LeavesSizesIncompatible == Len(biggerLeaves) < Len(smallerLeaves)

DescSizes == "Inclusion refuted! Reason: leaves set sizes incompatible"

DescLeaves == "Inclusion refuted! Reason: leaves not covered"

DescAccepts == "Inclusion refuted! Reason: smaller accepts, bigger does not"

DescProved == "Inclusion proved!"

RECURSIVE SeedSmallerUnchecked(_, _, _, _, _)
\* SeedSmaller without the test of lines 406-411
SeedSmallerUnchecked(ts, ptr, isAccepting, proc, nxt) ==
  IF ts = <<>> THEN [refuted |-> FALSE, processed |-> proc, next |-> nxt]
  ELSE LET p == Head(ts).state IN
       IF checkIntersection(ind[p], Range(ptr))
       THEN SeedSmallerUnchecked(Tail(ts), ptr, isAccepting, proc, nxt)
       ELSE IF AC2Contains(proc, ind[p], ptr, "lte")
       THEN SeedSmallerUnchecked(Tail(ts), ptr, isAccepting, proc, nxt)
       ELSE SeedSmallerUnchecked(Tail(ts), ptr, isAccepting,
              AC2Insert(AC2Refine(proc, inv[p], ptr, "gte"), p, ptr),
              (nxt \ AC2Erased(proc, inv[p], ptr, "gte"))
                 \cup {[smaller |-> p, bigger |-> ptr]})

RECURSIVE SeedSmaller(_, _, _, _, _)
\* the loop over smallerLeaves[symbol]: ptr is the macro-state of the symbol
SeedSmaller(ts, ptr, isAccepting, proc, nxt) ==
  IF ts = <<>> THEN [refuted |-> FALSE, processed |-> proc, next |-> nxt]
  ELSE LET p == Head(ts).state IN
       IF ~isAccepting /\ p \in smaller.final
       THEN [refuted |-> TRUE, processed |-> proc, next |-> nxt]
       ELSE IF checkIntersection(ind[p], Range(ptr))
       THEN SeedSmaller(Tail(ts), ptr, isAccepting, proc, nxt)
       ELSE IF AC2Contains(proc, ind[p], ptr, "lte")
       THEN SeedSmaller(Tail(ts), ptr, isAccepting, proc, nxt)
       ELSE SeedSmaller(Tail(ts), ptr, isAccepting,
              AC2Insert(AC2Refine(proc, inv[p], ptr, "gte"), p, ptr),
              (nxt \ AC2Erased(proc, inv[p], ptr, "gte"))
                 \cup {[smaller |-> p, bigger |-> ptr]})

(***************************************************************************)
(* ChoiceVector: state_ is a vector of positions into the lists.           *)
(***************************************************************************)
\* the lists of a built choice vector; an empty list: build returned false
ChoiceLists(children, index, proc, fixed) ==
  [i \in 1..Len(children) |->
     IF i = index + 1 THEN <<fixed>> ELSE AC2Lookup(proc, children[i])]

ChoiceBuild(children, index, proc, fixed) ==
  \A i \in 1..Len(children) : Len(ChoiceLists(children, index, proc, fixed)[i]) > 0

RECURSIVE ChoiceNextFromKept(_, _, _)
\* ChoiceVector::next over a Choice::next that does not go back to begin()
ChoiceNextFromKept(i, state, lists) ==
  IF i > Len(state) THEN [more |-> FALSE, state |-> state]
  ELSE IF state[i] + 1 <= Len(lists[i])
       THEN [more |-> TRUE, state |-> [state EXCEPT ![i] = @ + 1]]
       ELSE ChoiceNextFromKept(i + 1, state, lists)

RECURSIVE ChoiceNextFrom(_, _, _)
\* ChoiceVector::next from slot i on: [more, state]
ChoiceNextFrom(i, state, lists) ==
  IF i > Len(state) THEN [more |-> FALSE, state |-> state]
  ELSE IF state[i] + 1 <= Len(lists[i])
       THEN [more |-> TRUE, state |-> [state EXCEPT ![i] = @ + 1]]
       ELSE ChoiceNextFrom(i + 1, [state EXCEPT ![i] = 1], lists)

ChoiceNext(state, lists) == ChoiceNextFrom(1, state, lists)

RECURSIVE IntersectSlots(_, _, _, _, _)
\* firstSet narrowed by intersectionByLookup over the slots k >= 1
IntersectSlots(sym, k, state, lists, acc) ==
  IF k >= Len(state) THEN acc
  ELSE IntersectSlots(sym, k + 1, state, lists,
         acc \cap evalTransitions(sym, k, lists[k + 1][state[k + 1]]))

BiggerTransitions(sym, state, lists) ==
  IntersectSlots(sym, 1, state, lists, evalTransitions(sym, 0, lists[1][state[1]]))

RECURSIVE ChoiceLoop(_, _, _, _)
\* the do/while over the choices of one smaller transition
ChoiceLoop(trans, state, lists, temp) ==
  LET post == PostFold(TransSeq(BiggerTransitions(trans.symbol, state, lists)), {}, FALSE)
      isSmallerAccepting == trans.state \in smaller.final
      tmp == SortedSeq(post.data)
      p == trans.state
      temp2 == IF \/ checkIntersection(ind[p], Range(tmp))
                  \/ AC2Contains(temp, ind[p], tmp, "lte")
               THEN temp
               ELSE AC2Insert(AC2Refine(temp, inv[p], tmp, "gte"), p, tmp)
      nx == ChoiceNext(state, lists)
  IN IF post.data = {} \/ (~post.accepting /\ isSmallerAccepting)
     THEN [refuted |-> TRUE, temporary |-> temp]
     ELSE IF nx.more THEN ChoiceLoop(trans, nx.state, lists, temp2)
          ELSE [refuted |-> FALSE, temporary |-> temp2]

\* temporary.data() flattened to (key, macro-state) pairs in iteration order
RECURSIVE TemporaryPairs(_, _)
TemporaryPairs(temp, keys) ==
  IF keys = {} THEN <<>>
  ELSE LET k == Min(keys)
       IN [i \in 1..Len(temp[k]) |-> [smaller |-> k, bigger |-> temp[k][i]]]
          \o TemporaryPairs(temp, keys \ {k})

RECURSIVE PromoteKeeping(_, _, _)
\* Promote with an Eraser that leaves next alone
PromoteKeeping(pairs, proc, nxt) ==
  IF pairs = <<>> THEN [processed |-> proc, next |-> nxt]
  ELSE LET k == Head(pairs).smaller
           b == Head(pairs).bigger
       IN IF AC2Contains(proc, ind[k], b, "lte")
          THEN PromoteKeeping(Tail(pairs), proc, nxt)
          ELSE PromoteKeeping(Tail(pairs),
                 AC2Insert(AC2Refine(proc, inv[k], b, "gte"), k, b),
                 nxt \cup {[smaller |-> k, bigger |-> b]})

RECURSIVE PromoteErasing(_, _, _)
\* Promote with an Eraser that drops every pending pair of the refined keys
PromoteErasing(pairs, proc, nxt) ==
  IF pairs = <<>> THEN [processed |-> proc, next |-> nxt]
  ELSE LET k == Head(pairs).smaller
           b == Head(pairs).bigger
       IN IF AC2Contains(proc, ind[k], b, "lte")
          THEN PromoteErasing(Tail(pairs), proc, nxt)
          ELSE PromoteErasing(Tail(pairs),
                 AC2Insert(AC2Refine(proc, inv[k], b, "gte"), k, b),
                 {e \in nxt : e.smaller \notin inv[k]}
                    \cup {[smaller |-> k, bigger |-> b]})

RECURSIVE Promote(_, _, _)
\* temporary's pairs moved into processed and next
Promote(pairs, proc, nxt) ==
  IF pairs = <<>> THEN [processed |-> proc, next |-> nxt]
  ELSE LET k == Head(pairs).smaller
           b == Head(pairs).bigger
       IN IF AC2Contains(proc, ind[k], b, "lte")
          THEN Promote(Tail(pairs), proc, nxt)
          ELSE Promote(Tail(pairs),
                 AC2Insert(AC2Refine(proc, inv[k], b, "gte"), k, b),
                 (nxt \ AC2Erased(proc, inv[k], b, "gte"))
                    \cup {[smaller |-> k, bigger |-> b]})

(***************************************************************************)
(* Reference semantics: the trees over the smaller automaton's transitions *)
(* reach, bottom-up, a smaller state p together with the exact set of      *)
(* bigger states of the same tree (plain subset construction, no pruning). *)
(***************************************************************************)
RefPost(S) ==
  {[p |-> t.state,
    B |-> {u.state : u \in {x \in bigger.trans : x.symbol = t.symbol /\ x.children = <<>>}}] :
      t \in {x \in smaller.trans : x.children = <<>>}}
  \cup
  {[p |-> e[1].state,
    B |-> {u.state : u \in {x \in bigger.trans :
              /\ x.symbol = e[1].symbol /\ Len(x.children) = 2
              /\ x.children[1] \in e[2].B /\ x.children[2] \in e[3].B}}] :
      e \in {y \in {x \in smaller.trans : Len(x.children) = 2} \X S \X S :
               y[1].children[1] = y[2].p /\ y[1].children[2] = y[3].p}}

RECURSIVE RefReach(_)
RefReach(S) == IF RefPost(S) \subseteq S THEN S ELSE RefReach(S \cup RefPost(S))

\* L(smaller) is included in L(bigger)
RefInclusion ==
  \A e \in RefReach({}) : e.p \in smaller.final => e.B \cap bigger.final # {}

RECURSIVE UsefulStates(_, _)
\* states of aut from which a final state is reachable upwards through
\* transitions whose children are all reachable bottom-up
UsefulStates(aut, up) ==
  LET more == up \cup {c \in AllStates : \E t \in aut.trans :
                         /\ t.state \in up
                         /\ \E i \in 1..Len(t.children) : t.children[i] = c}
  IN IF more = up THEN up ELSE UsefulStates(aut, more)

RECURSIVE ReachableStates(_, _)
ReachableStates(aut, reach) ==
  LET more == reach \cup {t.state : t \in {x \in aut.trans :
                            \A i \in 1..Len(x.children) : x.children[i] \in reach}}
  IN IF more = reach THEN reach ELSE ReachableStates(aut, more)

\* no useless states: every state occurring in a transition is reachable
\* bottom-up and every transition is part of an accepting run
RECURSIVE LiveTrans(_, _)
LiveTrans(aut, T) ==
  LET reach == ReachableStates([aut EXCEPT !.trans = T], {})
      top == UsefulStates([aut EXCEPT !.trans = T], aut.final)
      T2 == {t \in T : /\ t.state \in top
                       /\ \A i \in 1..Len(t.children) : t.children[i] \in reach}
  IN IF T2 = T THEN T ELSE LiveTrans(aut, T2)

NoUselessStates(aut) == LiveTrans(aut, aut.trans) = aut.trans

(***************************************************************************)
(* Upward simulations on the union of the two automata: the preorders the  *)
(* upward checker is run with.                                             *)
(***************************************************************************)
UnionTrans == smaller.trans \cup bigger.trans

UnionFinal == smaller.final \cup bigger.final

IsTransitive(R) ==
  \A x \in R : \A y \in R : x[2] = y[1] => <<x[1], y[2]>> \in R

\* p R r may stay: r matches every transition p takes part in as a child
UpwardStep(R, p, r) ==
  \A t \in UnionTrans : \A i \in 1..Len(t.children) :
     t.children[i] = p =>
       \E u \in UnionTrans :
          /\ u.symbol = t.symbol
          /\ u.children = [t.children EXCEPT ![i] = r]
          /\ <<t.state, u.state>> \in R

IsUpwardSimulation(R) ==
  \A x \in R : /\ (x[1] \in UnionFinal => x[2] \in UnionFinal)
               /\ UpwardStep(R, x[1], x[2])

RECURSIVE MaxUpwardSimFrom(_)
MaxUpwardSimFrom(R) ==
  LET R2 == {x \in R : UpwardStep(R, x[1], x[2])}
  IN IF R2 = R THEN R ELSE MaxUpwardSimFrom(R2)

\* the states the transitions mention; the preorders relate no other states
OccurringStates ==
  {t.state : t \in UnionTrans}
  \cup UNION {Range(t.children) : t \in UnionTrans}

MaxUpwardSim ==
  Identity \cup
  MaxUpwardSimFrom({x \in OccurringStates \X OccurringStates :
                      x[1] \in UnionFinal => x[2] \in UnionFinal})

CompatiblePreorders ==
  {R \in {Identity \cup X : X \in {Y \in SUBSET (MaxUpwardSim \ Identity) :
                                     Cardinality(Y) <= MaxPreorderPairs}} :
     IsTransitive(R) /\ IsUpwardSimulation(R)}
  \cup {MaxUpwardSim}

(***************************************************************************)
(* Inputs.  The symbol numbering is dense and starts with the smaller      *)
(* automaton's symbols, so the enumerated smaller automata use leaf symbol *)
(* 0 only and the bigger ones may add leaf symbol 1.                       *)
(***************************************************************************)
PoolSmaller == TransitionsOver({0, 1}, {0})

PoolBigger == TransitionsOver({3, 4}, {0}) \cup {Leaf(1, 4)}

EnumeratedInputs ==
  {[smaller |-> [trans |-> TS, final |-> FS], bigger |-> [trans |-> TB, final |-> FB]] :
     TS \in {X \in SUBSET PoolSmaller : Cardinality(X) <= MaxTrans},
     TB \in {X \in SUBSET PoolBigger : Cardinality(X) <= MaxTrans},
     FS \in SUBSET {0, 1}, FB \in SUBSET {3, 4}}

\* scenario S3: the only tree of the smaller automaton is b(a,a)
ScenarioS3 ==
  [smaller |-> [trans |-> {Leaf(0, 0), Bin(2, 0, 0, 1)}, final |-> {1}],
   bigger |-> [trans |-> {Leaf(0, 3), Leaf(0, 4), Bin(2, 3, 4, 5)}, final |-> {5}]]

\* two leaves reach the same smaller state with incomparable macro-states
ScenarioChoice ==
  [smaller |-> [trans |-> {Leaf(0, 0), Leaf(1, 0), Bin(2, 0, 0, 1)}, final |-> {1}],
   bigger |-> [trans |-> {Leaf(0, 3), Leaf(1, 4), Bin(2, 3, 3, 5), Bin(2, 3, 4, 5),
                          Bin(2, 4, 3, 5)}, final |-> {5}]]

\* the second leaf reaches the smaller state with a smaller macro-state
ScenarioEvict ==
  [smaller |-> [trans |-> {Leaf(0, 0), Leaf(1, 0), Bin(2, 0, 0, 0)}, final |-> {0}],
   bigger |-> [trans |-> {Leaf(0, 3), Leaf(0, 4), Leaf(1, 3), Bin(2, 3, 3, 3),
                          Bin(2, 3, 4, 4), Bin(2, 4, 3, 4), Bin(2, 4, 4, 4)},
               final |-> {3, 4}]]

\* the smaller automaton accepts every binary tree over a and b, the bigger
\* one the trees a and b(a,a)
ScenarioLoop ==
  [smaller |-> [trans |-> {Leaf(0, 0), Bin(2, 0, 0, 0)}, final |-> {0}],
   bigger |-> [trans |-> {Leaf(0, 3), Bin(2, 3, 3, 4)}, final |-> {3, 4}]]

\* two pending pairs of one smaller state: the bigger automaton has every
\* binary transition into its state 5 but the one over (4, 4)
ScenarioOrder ==
  [smaller |-> [trans |-> {Leaf(0, 0), Leaf(1, 0), Bin(2, 0, 0, 0)}, final |-> {0}],
   bigger |-> [trans |-> {Leaf(0, 3), Leaf(1, 4)}
                         \cup {Bin(2, c[1], c[2], 5) :
                                 c \in ({3, 4, 5} \X {3, 4, 5}) \ {<<4, 4>>}},
               final |-> {3, 4, 5}]]

\* the pair the second leaf seeds is still pending when the promotion of
\* b(a,a) brings its smaller state a smaller macro-state
ScenarioPromote ==
  [smaller |-> [trans |-> {Leaf(0, 0), Leaf(1, 1), Bin(2, 0, 0, 1)}, final |-> {1}],
   bigger |-> [trans |-> {Leaf(0, 3), Leaf(1, 4), Leaf(1, 5), Bin(2, 3, 3, 4)},
               final |-> {4, 5}]]

\* b(a,a) reaches two states of the bigger automaton, the first of them
\* below the second in every upward simulation that relates them
ScenarioFold ==
  [smaller |-> [trans |-> {Leaf(0, 0), Bin(2, 0, 0, 1)}, final |-> {1}],
   bigger |-> [trans |-> {Leaf(0, 3), Bin(2, 3, 3, 4), Bin(2, 3, 3, 5)}, final |-> {5}]]

Scenarios ==
  {ScenarioS3, ScenarioChoice, ScenarioEvict, ScenarioOrder, ScenarioPromote, ScenarioFold}

Inputs ==
  {x \in EnumeratedInputs : Cardinality(x.smaller.trans) + Cardinality(x.bigger.trans) <= MaxTrans}
  \cup Scenarios

(***************************************************************************)
(* The run of checkInternal.                                               *)
(***************************************************************************)
UpStart ==
  /\ upPc = "start"
  /\ symbol = 0
  /\ processed = EmptyAC2
  /\ next = {}
  /\ q = 0
  /\ Q = <<>>
  /\ todo = <<>>
  /\ result = NoVerdict
  /\ description = ""
  /\ descCount = 0

UpInit ==
  /\ \E x \in Inputs : smaller = x.smaller /\ bigger = x.bigger
  /\ preorder = Identity
  /\ useIdentity = TRUE
  /\ firstResult = NoVerdict
  /\ UpStart

UpInputsUnchanged == UNCHANGED <<smaller, bigger, preorder, useIdentity, firstResult>>

\* a refutation that returns without SetDescription
ReturnSilent(value, text) ==
  /\ upPc' = "done"
  /\ result' = value
  /\ IF value THEN description' = text /\ descCount' = descCount + 1
              ELSE UNCHANGED <<description, descCount>>

\* context.SetDescription(text); return value;
Return(value, text) ==
  /\ upPc' = "done"
  /\ result' = value
  /\ description' = text
  /\ descCount' = descCount + 1

\* lines 365-370
CheckLeafSizes ==
  /\ upPc = "start"
  /\ IF LeavesSizesIncompatible
     THEN Return(FALSE, DescSizes)
     ELSE upPc' = "seed" /\ UNCHANGED <<result, description, descCount>>
  /\ UNCHANGED <<symbol, processed, next, q, Q, todo>>
  /\ UpInputsUnchanged

\* one iteration of the loop over the leaf symbols, lines 372-435
SeedSymbol ==
  /\ upPc = "seed"
  /\ symbol < Len(smallerLeaves)
  /\ LET post == PostFold(biggerLeaves[symbol + 1], {}, FALSE)
         ptr == SortedSeq(post.data)
         r == SeedSmaller(smallerLeaves[symbol + 1], ptr, post.accepting, processed, next)
     IN /\ processed' = r.processed
        /\ next' = r.next
        /\ IF r.refuted
           THEN Return(FALSE, DescLeaves) /\ UNCHANGED symbol
           ELSE /\ symbol' = symbol + 1
                /\ UNCHANGED <<upPc, result, description, descCount>>
  /\ UNCHANGED <<q, Q, todo>>
  /\ UpInputsUnchanged

SeedDone ==
  /\ upPc = "seed"
  /\ symbol >= Len(smallerLeaves)
  /\ upPc' = "loop"
  /\ UNCHANGED <<symbol, processed, next, q, Q, todo, result, description, descCount>>
  /\ UpInputsUnchanged

\* AntichainElem::less without its last tie-break (the macro-state's address)
ElemLess(e1, e2) ==
  \/ Len(e1.bigger) < Len(e2.bigger)
  \/ Len(e1.bigger) = Len(e2.bigger) /\ e1.smaller < e2.smaller

\* the pop without line 450: the pair stays in next
PopNextKept ==
  /\ upPc = "loop"
  /\ next # {}
  /\ ~popAny
  /\ \E e \in next :
       /\ \A f \in next : ~ElemLess(f, e)
       /\ q' = e.smaller
       /\ Q' = e.bigger
       /\ todo' = SmallerIndexSeq(e.smaller, 0)
  /\ upPc' = "expand"
  /\ UNCHANGED <<symbol, processed, next, result, description, descCount>>
  /\ UpInputsUnchanged

\* lines 445-456: pop next.begin()
PopNext ==
  /\ upPc = "loop"
  /\ next # {}
  /\ ~popAny
  /\ \E e \in next :
       /\ \A f \in next : ~ElemLess(f, e)
       /\ q' = e.smaller
       /\ Q' = e.bigger
       /\ next' = next \ {e}
       /\ todo' = SmallerIndexSeq(e.smaller, 0)
  /\ upPc' = "expand"
  /\ UNCHANGED <<symbol, processed, result, description, descCount>>
  /\ UpInputsUnchanged

\* lines 464-581: one smaller transition having q at slot j
ExpandTransition ==
  /\ upPc = "expand"
  /\ todo # <<>>
  /\ LET trans == Head(todo).trans
         j == Head(todo).slot
         lists == ChoiceLists(trans.children, j, processed, Q)
     IN IF ~ChoiceBuild(trans.children, j, processed, Q)
        THEN UNCHANGED <<upPc, processed, next, result, description, descCount>>
        ELSE LET r == ChoiceLoop(trans, [i \in 1..Len(trans.children) |-> 1], lists, EmptyAC2)
                 pr == Promote(TemporaryPairs(r.temporary, SmallerStates), processed, next)
             IN IF r.refuted
                THEN Return(FALSE, DescAccepts) /\ UNCHANGED <<processed, next>>
                ELSE /\ processed' = pr.processed
                     /\ next' = pr.next
                     /\ UNCHANGED <<upPc, result, description, descCount>>
  /\ todo' = Tail(todo)
  /\ UNCHANGED <<symbol, q, Q>>
  /\ UpInputsUnchanged

ExpandDone ==
  /\ upPc = "expand"
  /\ todo = <<>>
  /\ upPc' = "loop"
  /\ UNCHANGED <<symbol, processed, next, q, Q, todo, result, description, descCount>>
  /\ UpInputsUnchanged

\* lines 588-590
Proved ==
  /\ upPc = "loop"
  /\ next = {}
  /\ Return(TRUE, DescProved)
  /\ UNCHANGED <<symbol, processed, next, q, Q, todo>>
  /\ UpInputsUnchanged

\* the same inputs checked once more, with a preorder of the caller
RunWithPreorder ==
  /\ upPc = "done"
  /\ useIdentity
  /\ \E R \in CompatiblePreorders \ {Identity} : preorder' = R
  /\ useIdentity' = FALSE
  /\ firstResult' = result
  /\ upPc' = "start"
  /\ symbol' = 0
  /\ processed' = EmptyAC2
  /\ next' = {}
  /\ q' = 0
  /\ Q' = <<>>
  /\ todo' = <<>>
  /\ result' = NoVerdict
  /\ description' = ""
  /\ descCount' = 0
  /\ UNCHANGED <<smaller, bigger>>


(***************************************************************************)
(* The downward inclusion functor (down_tree_incl_fctor.hh).  The          *)
(* recursion of expand and operator() is kept as a stack of frames: one    *)
(* frame per running expand, holding its inner functor (childrenCache_,    *)
(* inclusionHolds_) and the position of that functor's loops.  The bottom  *)
(* frame is the caller with the outermost functor.                         *)
(***************************************************************************)
VARIABLES
  downPc,       \* "run" while the check is running, then "done"
  downStack,    \* the frames of the running expand calls, the caller's first
  workset,      \* workset_: a bag of pairs [p, S]
  nonIncl,      \* nonIncl_: Antichain2C of refuted pairs
  downResult,   \* value returned to the caller (NoVerdict until it returned)
  downCalls,    \* the finished calls of expand made by the caller: [p, S, value]
  cout          \* the verdicts main has printed

downVars == <<downPc, downStack, workset, nonIncl, downResult, downCalls, cout>>

\* a total order on state tuples, standing for the order of a StateTupleSet
TupleKey(c) == IF c = <<>> THEN 0 ELSE c[1] * 12 + c[2]

RECURSIVE TupleSeq(_)
TupleSeq(T) ==
  IF T = {} THEN <<>>
  ELSE LET c == CHOOSE x \in T : \A y \in T : TupleKey(x) <= TupleKey(y)
       IN <<c>> \o TupleSeq(T \ {c})

\* ForeachDownSymbolFromStateAndStateSetDo: the symbols of p's down transitions
DownSymbols(p) == SortedSeq({t.symbol : t \in {x \in smaller.trans : x.state = p}})

\* lhs: the child tuples of p under sym in the smaller automaton
LhsTuples(p, sym) ==
  TupleSeq({t.children : t \in {x \in smaller.trans : x.state = p /\ x.symbol = sym}})

\* rhs (and rhsVector): the child tuples of the states of S under sym in the bigger automaton
RhsTuples(S, sym) ==
  TupleSeq({t.children : t \in {x \in bigger.trans : x.state \in S /\ x.symbol = sym}})

\* the generator with a single round left
CfInitLast(length, range) ==
  [cf |-> [i \in 1..length |-> range - 1], last |-> IF range = 0 THEN 0 ELSE 1]

\* SequentialChoiceFunctionGenerator(length, range)
CfInit(length, range) ==
  [cf |-> [i \in 1..length |-> range - 1], last |-> IF range = 0 THEN 0 ELSE 2]

RECURSIVE CfAdvance(_, _, _, _)
\* the while loop of GetNext, index counted from 1
CfAdvance(cf, last, index, range) ==
  IF cf[index] + 1 = range
  THEN IF index = Len(cf)
       THEN [cf |-> [cf EXCEPT ![index] = 0], last |-> last - 1]
       ELSE CfAdvance([cf EXCEPT ![index] = 0], last, index + 1, range)
  ELSE [cf |-> [cf EXCEPT ![index] = @ + 1], last |-> last]

CfGetNext(cf, last, range) == CfAdvance(cf, last, 1, range)

CfIsLast(last) == last = 0

\* rhsSetForTuplePos
RhsSetForTuplePos(cf, rhsVector, tuplePos) ==
  {rhsVector[k][tuplePos + 1] : k \in {i \in 1..Len(cf) : cf[i] = tuplePos}}

\* a functor's frame before its first loop
NewFrame(p, S, syms, mode) ==
  [p |-> p, S |-> S, cache |-> EmptyAC2, holds |-> TRUE, syms |-> syms,
   mode |-> mode, li |-> 1, ri |-> 1, slot |-> 0, cf |-> <<>>, last |-> 0]

\* failProcessing without line 322: inclusionHolds_ stays true
FailProcessingIgnored(f) == [f EXCEPT !.mode = "done"]

\* failProcessing
FailProcessing(f) == [f EXCEPT !.holds = FALSE, !.mode = "done"]

\* operator() with inclusionHolds_ set on the success of a nullary symbol
OperatorEntryRestoring(f) ==
  LET sym == Head(f.syms)
      lhsSet == LhsTuples(f.p, sym)
      rhsVector == RhsTuples(f.S, sym)
  IN IF lhsSet = <<>> THEN [f EXCEPT !.mode = "done"]
     ELSE IF Arity(sym) = 0
          THEN IF rhsVector # <<>> THEN [f EXCEPT !.holds = TRUE, !.mode = "done"]
               ELSE FailProcessing(f)
          ELSE IF rhsVector = <<>> THEN FailProcessing(f)
               ELSE [f EXCEPT !.mode = "single", !.li = 1, !.ri = 1, !.slot = 0,
                              !.cf = <<>>, !.last = 0]

\* operator() for the symbol at the head of f.syms, up to its first call of
\* expand
OperatorEntry(f) ==
  LET sym == Head(f.syms)
      lhsSet == LhsTuples(f.p, sym)
      rhsVector == RhsTuples(f.S, sym)
  IN IF lhsSet = <<>> THEN [f EXCEPT !.mode = "done"]
     ELSE IF Arity(sym) = 0
          THEN IF rhsVector # <<>> THEN [f EXCEPT !.mode = "done"]
               ELSE FailProcessing(f)
          ELSE IF rhsVector = <<>> THEN FailProcessing(f)
               ELSE [f EXCEPT !.mode = "single", !.li = 1, !.ri = 1, !.slot = 0,
                              !.cf = <<>>, !.last = 0]

RECURSIVE EnterSymbol(_)
\* the loop over the symbols of ForeachDownSymbolFromStateAndStateSetDo, which
\* ends when the functor stopped processing, up to the first call of expand
EnterSymbol(f) ==
  IF f.syms = <<>> \/ ~f.holds THEN [f EXCEPT !.mode = "done"]
  ELSE LET g == OperatorEntry(f)
       IN IF g.mode = "done" /\ g.holds THEN EnterSymbol([f EXCEPT !.syms = Tail(@)])
          ELSE g

\* the next tuple of lhs, or the next symbol
NextLhs(f) ==
  IF f.li < Len(LhsTuples(f.p, Head(f.syms)))
  THEN [f EXCEPT !.mode = "single", !.li = @ + 1, !.ri = 1, !.slot = 0,
                 !.cf = <<>>, !.last = 0]
  ELSE EnterSymbol([f EXCEPT !.syms = Tail(@), !.cf = <<>>, !.last = 0])

RECURSIVE ChoiceSlot(_, _)
\* the loop over tuplePos from pos on, up to the next call of expand
ChoiceSlot(f, pos) ==
  LET sym == Head(f.syms)
  IN IF pos >= Arity(sym) THEN FailProcessing(f)
     ELSE IF RhsSetForTuplePos(f.cf, RhsTuples(f.S, sym), pos) = {}
          THEN ChoiceSlot(f, pos + 1)
          ELSE [f EXCEPT !.mode = "choice", !.slot = pos]

\* the head of the loop over the choice functions
NextChoice(f) ==
  IF CfIsLast(f.last) THEN NextLhs(f)
  ELSE LET g == CfGetNext(f.cf, f.last, Arity(Head(f.syms)))
       IN ChoiceSlot([f EXCEPT !.cf = g.cf, !.last = g.last], 0)

\* the caller: expand for each final state of the smaller automaton, against
\* the final states of the bigger one, until one call fails
ResumeTop(f, answer) ==
  IF ~answer THEN FailProcessing(f)
  ELSE IF f.li < Len(f.syms) THEN [f EXCEPT !.li = @ + 1]
       ELSE [f EXCEPT !.mode = "done"]

\* the frame after its pending call of expand returned `answer`
Resume(f, answer) ==
  IF f.mode = "top" THEN ResumeTop(f, answer)
  ELSE LET sym == Head(f.syms)
           rhs == RhsTuples(f.S, sym)
       IN IF f.mode = "single"
          THEN IF answer
               THEN IF f.slot + 1 < Arity(sym) THEN [f EXCEPT !.slot = @ + 1]
                    ELSE NextLhs(f)
               ELSE IF f.ri < Len(rhs) THEN [f EXCEPT !.ri = @ + 1, !.slot = 0]
                    ELSE LET g == CfInit(Len(rhs), Arity(sym))
                         IN NextChoice([f EXCEPT !.cf = g.cf, !.last = g.last])
          ELSE IF answer THEN NextChoice(f)
               ELSE ChoiceSlot(f, f.slot + 1)

\* the arguments of the call of expand the frame is waiting at
PendingCall(f) ==
  IF f.mode = "top" THEN [p |-> f.syms[f.li], S |-> bigger.final]
  ELSE LET sym == Head(f.syms)
           lhsTuple == LhsTuples(f.p, sym)[f.li]
           rhs == RhsTuples(f.S, sym)
       IN IF f.mode = "single"
          THEN [p |-> lhsTuple[f.slot + 1], S |-> {rhs[f.ri][f.slot + 1]}]
          ELSE [p |-> lhsTuple[f.slot + 1], S |-> RhsSetForTuplePos(f.cf, rhs, f.slot)]

preorderSmaller == inv

preorderBigger == ind

isInWorkset(elem) ==
  \E stateSetPair \in BagToSet(workset) :
     /\ <<elem.p, stateSetPair.p>> \in preorder
     /\ SetComparerSmaller(stateSetPair.S, elem.S)

isImpliedByChildren(childrenCache, elem) ==
  AC2Contains(childrenCache, preorderBigger[elem.p], elem.S, "smallerComparer")

isNoninclusionImplied(elem) ==
  AC2Contains(nonIncl, preorderSmaller[elem.p], elem.S, "biggerComparer")

isImpliedByPreorder(elem) ==
  \E biggerState \in elem.S : <<elem.p, biggerState>> \in preorder

\* the filters at the head of expand: whether one of them returns, and what
Filtered(childrenCache, elem) ==
  IF isInWorkset(elem) THEN [returns |-> TRUE, value |-> TRUE]
  ELSE IF isNoninclusionImplied(elem) THEN [returns |-> TRUE, value |-> FALSE]
  ELSE IF isImpliedByChildren(childrenCache, elem) THEN [returns |-> TRUE, value |-> TRUE]
  ELSE IF isImpliedByPreorder(elem) THEN [returns |-> TRUE, value |-> TRUE]
  ELSE [returns |-> FALSE, value |-> FALSE]

processFoundInclusion(childrenCache, elem) ==
  AC2Insert(AC2Refine(childrenCache, preorderSmaller[elem.p], elem.S, "smallerComparer"),
            elem.p, elem.S)

\* processFoundNoninclusion without the insert: the refutation is not recorded
processFoundNoninclusionDropped(elem) ==
  AC2Refine(nonIncl, preorderBigger[elem.p], elem.S, "biggerComparer")

processFoundNoninclusion(elem) ==
  AC2Insert(AC2Refine(nonIncl, preorderBigger[elem.p], elem.S, "biggerComparer"),
            elem.p, elem.S)

DownTop == downStack[Len(downStack)]

DownInputsUnchanged == UNCHANGED <<smaller, bigger, preorder, cout>>

\* expand answered by one of its filters
ExpandFiltered ==
  /\ downPc = "run"
  /\ DownTop.mode # "done"
  /\ LET elem == PendingCall(DownTop)
         answer == Filtered(DownTop.cache, elem).value
     IN /\ Filtered(DownTop.cache, elem).returns
        /\ downStack' = [downStack EXCEPT ![Len(downStack)] = Resume(@, answer)]
        /\ downCalls' = IF Len(downStack) = 1
                        THEN downCalls \cup {[p |-> elem.p, S |-> elem.S, value |-> answer]}
                        ELSE downCalls
  /\ UNCHANGED <<downPc, workset, nonIncl, downResult>>
  /\ DownInputsUnchanged

\* expand with an inner functor that copies the children cache of its maker
ExpandEnterInheriting ==
  /\ downPc = "run"
  /\ DownTop.mode # "done"
  /\ LET elem == PendingCall(DownTop)
     IN /\ ~Filtered(DownTop.cache, elem).returns
        /\ workset' = workset (+) SetToBag({elem})
        /\ downStack' = Append(downStack,
                           EnterSymbol([NewFrame(elem.p, elem.S, DownSymbols(elem.p), "single")
                                          EXCEPT !.cache = DownTop.cache]))
  /\ UNCHANGED <<downPc, nonIncl, downResult, downCalls>>
  /\ DownInputsUnchanged

\* expand passing its filters: the pair enters the workset and the inner
\* functor starts on the symbols of smallerState
ExpandEnter ==
  /\ downPc = "run"
  /\ DownTop.mode # "done"
  /\ LET elem == PendingCall(DownTop)
     IN /\ ~Filtered(DownTop.cache, elem).returns
        /\ workset' = workset (+) SetToBag({elem})
        /\ downStack' = Append(downStack,
                           EnterSymbol(NewFrame(elem.p, elem.S, DownSymbols(elem.p), "single")))
  /\ UNCHANGED <<downPc, nonIncl, downResult, downCalls>>
  /\ DownInputsUnchanged

\* expand without the erase of lines 288-299: the pair stays on the workset
ExpandReturnUnerased ==
  /\ downPc = "run"
  /\ Len(downStack) > 1
  /\ DownTop.mode = "done"
  /\ LET inner == DownTop
         elem == [p |-> inner.p, S |-> inner.S]
         outer == downStack[Len(downStack) - 1]
         cached == IF inner.holds
                   THEN [outer EXCEPT !.cache = processFoundInclusion(@, elem)]
                   ELSE outer
     IN /\ workset' = workset
        /\ nonIncl' = IF inner.holds THEN nonIncl ELSE processFoundNoninclusion(elem)
        /\ downStack' = [SubSeq(downStack, 1, Len(downStack) - 1)
                           EXCEPT ![Len(downStack) - 1] = Resume(cached, inner.holds)]
        /\ downCalls' = IF Len(downStack) = 2
                        THEN downCalls \cup {[p |-> elem.p, S |-> elem.S, value |-> inner.holds]}
                        ELSE downCalls
  /\ UNCHANGED <<downPc, downResult>>
  /\ DownInputsUnchanged

\* the inner functor is through: the pair leaves the workset, the result is
\* cached and returned
ExpandReturn ==
  /\ downPc = "run"
  /\ Len(downStack) > 1
  /\ DownTop.mode = "done"
  /\ LET inner == DownTop
         elem == [p |-> inner.p, S |-> inner.S]
         outer == downStack[Len(downStack) - 1]
         cached == IF inner.holds
                   THEN [outer EXCEPT !.cache = processFoundInclusion(@, elem)]
                   ELSE outer
     IN /\ BagIn(elem, workset)
        /\ workset' = workset (-) SetToBag({elem})
        /\ nonIncl' = IF inner.holds THEN nonIncl ELSE processFoundNoninclusion(elem)
        /\ downStack' = [SubSeq(downStack, 1, Len(downStack) - 1)
                           EXCEPT ![Len(downStack) - 1] = Resume(cached, inner.holds)]
        /\ downCalls' = IF Len(downStack) = 2
                        THEN downCalls \cup {[p |-> elem.p, S |-> elem.S, value |-> inner.holds]}
                        ELSE downCalls
  /\ UNCHANGED <<downPc, downResult>>
  /\ DownInputsUnchanged

\* the caller returns the verdict
DownFinish ==
  /\ downPc = "run"
  /\ Len(downStack) = 1
  /\ DownTop.mode = "done"
  /\ downPc' = "done"
  /\ downResult' = DownTop.holds
  /\ UNCHANGED <<downStack, workset, nonIncl, downCalls>>
  /\ DownInputsUnchanged

(***************************************************************************)
(* Intersection of top-down automata (bdd_td_tree_aut_isect.cc).  The MTBDD *)
(* of a state is read as the map from a symbol to the set of child tuples  *)
(* of the state's transitions under it; the states of the result are       *)
(* numbered from 0 in the order of AddState.                               *)
(***************************************************************************)
VARIABLES
  isectPc,      \* "start", "loop" while the worklist loop runs, then "done"
  lhs,          \* the first automaton
  rhs,          \* the second automaton
  translMap,    \* *pTranslMap: a map from pairs <<s, t>> to result states
  isectWorkset, \* workset: a map from result states to their pairs
  isectResult,  \* result: [count, final, trans], count the states added
  setCalls      \* the states setMtbdd was called for, in the order of the calls

isectVars == <<isectPc, lhs, rhs, translMap, isectWorkset, isectResult, setCalls>>

\* the map without entries
EmptyMap == [x \in {} |-> 0]

\* the leaf of getMtbdd(s) under sym: the child tuples of s's transitions
TuplesUnder(aut, s, sym) ==
  {t.children : t \in {x \in aut.trans : x.state = s /\ x.symbol = sym}}

RECURSIVE ApplyPositionsTwice(_, _, _, _)
\* ApplyPositions without line 85: the pair is not remembered
ApplyPositionsTwice(st, l, r, i) ==
  IF i > Len(l) THEN st
  ELSE LET newPair == <<l[i], r[i]>>
       IN IF newPair \in DOMAIN st.translMap
          THEN ApplyPositionsTwice([st EXCEPT !.tuple = Append(@, st.translMap[newPair])],
                                   l, r, i + 1)
          ELSE ApplyPositionsTwice(
                 [st EXCEPT !.count = @ + 1,
                            !.workset = @ @@ (st.count :> newPair),
                            !.tuple = Append(@, st.count)], l, r, i + 1)

RECURSIVE ApplyPositions(_, _, _, _)
\* the loop over the positions of the tuples l and r, from position i on
ApplyPositions(st, l, r, i) ==
  IF i > Len(l) THEN st
  ELSE LET newPair == <<l[i], r[i]>>
       IN IF newPair \in DOMAIN st.translMap
          THEN ApplyPositions([st EXCEPT !.tuple = Append(@, st.translMap[newPair])],
                              l, r, i + 1)
          ELSE ApplyPositions(
                 [st EXCEPT !.count = @ + 1,
                            !.translMap = @ @@ (newPair :> st.count),
                            !.workset = @ @@ (st.count :> newPair),
                            !.tuple = Append(@, st.count)], l, r, i + 1)

RECURSIVE ApplyTuples(_, _, _, _, _)
\* the two loops over the tuples of lhs and rhs, from the tuples li and ri on
ApplyTuples(st, L, R, li, ri) ==
  IF li > Len(L) \/ R = <<>> THEN st
  ELSE IF ri > Len(R) THEN ApplyTuples(st, L, R, li + 1, 1)
  ELSE LET done == ApplyPositions([st EXCEPT !.tuple = <<>>], L[li], R[ri], 1)
       IN ApplyTuples([done EXCEPT !.result = @ \cup {done.tuple}], L, R, li, ri + 1)

\* IntersectionApplyFunctor::ApplyOperation
ApplyOperation(st, lhsTuples, rhsTuples) ==
  ApplyTuples([st EXCEPT !.result = {}], TupleSeq(lhsTuples), TupleSeq(rhsTuples), 1, 1)

RECURSIVE IsectApply(_, _, _, _)
\* isect(lhs.getMtbdd(s), rhs.getMtbdd(t)): ApplyOperation on the leaves of
\* the two MTBDDs, symbol by symbol; the transitions found are kept in mtbdd
IsectApply(st, s, t, syms) ==
  IF syms = <<>> THEN st
  ELSE LET sym == Head(syms)
           done == ApplyOperation(st, TuplesUnder(st.lhs, s, sym), TuplesUnder(st.rhs, t, sym))
       IN IsectApply([done EXCEPT !.mtbdd = @ \cup {<<sym, c>> : c \in done.result}],
                     s, t, Tail(syms))

RECURSIVE SeedFinal(_, _)
\* the loops over the final states of lhs and rhs
SeedFinal(st, pairs) ==
  IF pairs = <<>> THEN st
  ELSE LET origStates == Head(pairs)
           newState == st.count
       IN SeedFinal([st EXCEPT !.count = @ + 1,
                               !.final = @ \cup {newState},
                               !.workset = @ @@ (newState :> origStates),
                               !.translMap = IF origStates \in DOMAIN @ THEN @
                                             ELSE @ @@ (origStates :> newState)],
                    Tail(pairs))

\* the pairs of final states in the order of the two loops
FinalPairs(A, B) ==
  LET fa == SortedSeq(A.final)
      fb == SortedSeq(B.final)
  IN [k \in 1..(Len(fa) * Len(fb)) |->
        <<fa[((k - 1) \div Len(fb)) + 1], fb[((k - 1) % Len(fb)) + 1]>>]

\* one turn of the worklist loop on the state st of the construction
IsectTurn(st) ==
  LET procState == Min(DOMAIN st.workset)
      procPair == st.workset[procState]
      done == IsectApply([st EXCEPT !.mtbdd = {}], procPair[1], procPair[2],
                         SortedSeq(Symbols))
  IN [done EXCEPT
        !.trans = {x \in @ : x.state # procState}
                  \cup {[symbol |-> m[1], children |-> m[2], state |-> procState] :
                          m \in done.mtbdd},
        !.setCalls = Append(@, procState),
        !.workset = [k \in DOMAIN done.workset \ {procState} |-> done.workset[k]]]

\* the construction on A and B before the loops over the final states
IsectEmpty(A, B) ==
  [lhs |-> A, rhs |-> B, count |-> 0, final |-> {}, trans |-> {},
   translMap |-> EmptyMap, workset |-> EmptyMap, setCalls |-> <<>>,
   tuple |-> <<>>, result |-> {}, mtbdd |-> {}]

\* the variables hold the state st of the construction
IsectInstall(st) ==
  /\ translMap' = st.translMap
  /\ isectWorkset' = st.workset
  /\ isectResult' = [count |-> st.count, final |-> st.final, trans |-> st.trans]
  /\ setCalls' = st.setCalls

\* the state of the construction held by the variables
IsectState ==
  [IsectEmpty(lhs, rhs) EXCEPT
     !.count = isectResult.count, !.final = isectResult.final,
     !.trans = isectResult.trans, !.translMap = translMap,
     !.workset = isectWorkset, !.setCalls = setCalls]

\* lines 100-126: the final states of the result
IsectSeed ==
  /\ isectPc = "start"
  /\ IsectInstall(SeedFinal(IsectEmpty(lhs, rhs), FinalPairs(lhs, rhs)))
  /\ isectPc' = "loop"
  /\ UNCHANGED <<lhs, rhs>>

\* lines 128-141: one state of the workset is processed
IsectLoop ==
  /\ isectPc = "loop"
  /\ DOMAIN isectWorkset # {}
  /\ IsectInstall(IsectTurn(IsectState))
  /\ UNCHANGED <<isectPc, lhs, rhs>>

\* lines 143-145: the workset is empty
IsectReturn ==
  /\ isectPc = "loop"
  /\ DOMAIN isectWorkset = {}
  /\ isectPc' = "done"
  /\ UNCHANGED <<lhs, rhs, translMap, isectWorkset, isectResult, setCalls>>

RECURSIVE IsectRun(_)
\* the worklist loop run to its end
IsectRun(st) == IF DOMAIN st.workset = {} THEN st ELSE IsectRun(IsectTurn(st))

\* Intersection(A, B) with no translation map given
Intersection(A, B) ==
  LET st == IsectRun(SeedFinal(IsectEmpty(A, B), FinalPairs(A, B)))
  IN [trans |-> st.trans, final |-> st.final]

\* the automata the construction is run on: the two automata of example2 and
\* the small automata over the states 0 and 1
IsectPool == TransitionsOver({0, 1}, {0})

aut1 == [trans |-> {Leaf(0, 0), Bin(2, 0, 0, 1), Bin(2, 1, 0, 2)}, final |-> {1, 2}]

aut2 == [trans |-> {Leaf(0, 0), Bin(2, 0, 0, 1), Bin(2, 0, 1, 2)}, final |-> {1, 2}]

IsectInputs ==
  {[lhs |-> [trans |-> TA, final |-> FA], rhs |-> [trans |-> TB, final |-> FB]] :
     TA \in {X \in SUBSET IsectPool : Cardinality(X) <= MaxTrans},
     TB \in {X \in SUBSET IsectPool : Cardinality(X) <= MaxTrans},
     FA \in SUBSET {0, 1}, FB \in SUBSET {0, 1}}

IsectInit ==
  /\ \E x \in {y \in IsectInputs :
                 Cardinality(y.lhs.trans) + Cardinality(y.rhs.trans) <= MaxTrans}
              \cup {[lhs |-> aut1, rhs |-> aut2], [lhs |-> aut1, rhs |-> aut1]} :
        lhs = x.lhs /\ rhs = x.rhs
  /\ isectPc = "start"
  /\ translMap = EmptyMap
  /\ isectWorkset = EmptyMap
  /\ isectResult = [count |-> 0, final |-> {}, trans |-> {}]
  /\ setCalls = <<>>

(***************************************************************************)
(* The program of example2.cc: the union and the intersection of aut1 and  *)
(* aut2 and the two downward checks between them.                          *)
(***************************************************************************)
\* the states occurring in an automaton
StatesOf(aut) ==
  aut.final \cup {t.state : t \in aut.trans}
            \cup UNION {Range(t.children) : t \in aut.trans}

\* the automaton with its states renamed by the map f
Renamed(aut, f) ==
  [trans |-> {[symbol |-> t.symbol,
               children |-> [i \in 1..Len(t.children) |-> f[t.children[i]]],
               state |-> f[t.state]] : t \in aut.trans},
   final |-> {f[s] : s \in aut.final}]

\* Union: the disjoint copy of both automata, the states of B after those of A
Union(A, B) ==
  LET shift == IF StatesOf(A) = {} THEN 0 ELSE Max(StatesOf(A)) + 1
      copyA == Renamed(A, [s \in StatesOf(A) |-> s])
      copyB == Renamed(B, [s \in StatesOf(B) |-> s + shift])
  IN [trans |-> copyA.trans \cup copyB.trans, final |-> copyA.final \cup copyB.final]

\* the automaton a checker is given: without useless states and with its
\* states numbered in the set target
Sanitized(aut, target) ==
  LET live == LiveTrans(aut, aut.trans)
      kept == [trans |-> live, final |-> aut.final \cap {t.state : t \in live}]
      from == SortedSeq(StatesOf(kept))
      to == SortedSeq(target)
  IN Renamed(kept, [s \in StatesOf(kept) |->
                      to[CHOOSE k \in 1..Len(from) : from[k] = s]])

autUnion == Union(aut1, aut2)

autIsect == Intersection(aut1, aut2)

\* the trees of height at most d accepted from the state s: a tree is the
\* tuple of its symbol and its subtrees
RECURSIVE TreesAt(_, _, _)
TreesAt(aut, s, d) ==
  IF d = 0 THEN {}
  ELSE {<<t.symbol>> : t \in {x \in aut.trans : x.state = s /\ x.children = <<>>}}
       \cup UNION {{<<t.symbol, x, y>> : x \in TreesAt(aut, t.children[1], d - 1),
                                         y \in TreesAt(aut, t.children[2], d - 1)} :
                     t \in {x \in aut.trans : x.state = s /\ Len(x.children) = 2}}

\* the language of aut, when no state of aut accepts a tree higher than d
LanguageWithin(aut, d) ==
  IF \A s \in StatesOf(aut) : TreesAt(aut, s, d + 1) = TreesAt(aut, s, d)
  THEN UNION {TreesAt(aut, s, d) : s \in aut.final}
  ELSE "higher"

\* main, lines 116-117: the first check is printed and the second one is called
MainSecondCheck ==
  /\ downPc = "done"
  /\ cout = <<>>
  /\ smaller = Sanitized(autIsect, SmallerStates)
  /\ bigger = Sanitized(autUnion, BiggerStates)
  /\ cout' = <<downResult>>
  /\ smaller' = Sanitized(autUnion, SmallerStates)
  /\ bigger' = Sanitized(autIsect, BiggerStates)
  /\ downPc' = "run"
  /\ downStack' = <<NewFrame(0, {}, SortedSeq(smaller'.final), "top")>>
  /\ workset' = EmptyBag
  /\ nonIncl' = EmptyAC2
  /\ downResult' = NoVerdict
  /\ downCalls' = {}
  /\ UNCHANGED preorder

(***************************************************************************)
(* The calls of the downward checker.                                      *)
(***************************************************************************)
\* the downward checker is called on automata without useless states
DownInputs ==
  {x \in Inputs \cup {ScenarioLoop}
       \cup {[smaller |-> Sanitized(autIsect, SmallerStates),
               bigger |-> Sanitized(autUnion, BiggerStates)]} :
     /\ NoUselessStates(x.smaller) /\ NoUselessStates(x.bigger)
     /\ x.smaller.final \subseteq {t.state : t \in x.smaller.trans}
     /\ x.bigger.final \subseteq {t.state : t \in x.bigger.trans}}

DownStart ==
  /\ downPc = "run"
  /\ downStack = <<IF smaller.final = {}
                   THEN NewFrame(0, {}, <<>>, "done")
                   ELSE NewFrame(0, {}, SortedSeq(smaller.final), "top")>>
  /\ workset = EmptyBag
  /\ nonIncl = EmptyAC2
  /\ downResult = NoVerdict
  /\ downCalls = {}
  /\ cout = <<>>

DownInit ==
  /\ \E x \in DownInputs : smaller = x.smaller /\ bigger = x.bigger
  /\ preorder = Identity
  /\ DownStart

(***************************************************************************)
(* The simulation engine (explicit_lts_sim.cc).  States and labels of the  *)
(* LTS and the indices of the blocks are numbered from 0; the block with   *)
(* index b is partition[b + 1].  A null pointer is 0 for a counter row and *)
(* the empty sequence for a ring of states or a remove list.               *)
(***************************************************************************)
VARIABLES
  lts,          \* the ExplicitLTS: [states, labels, edges], an edge is <<q, a, r>>
  inPartition,  \* computeSimulation's argument partition
  inRelation,   \* computeSimulation's argument relation: [size, bits]
  outputSize,   \* computeSimulation's argument outputSize
  simPc,        \* "start", "run", "remove", "done"; "aborted" after a failed assertion
  partition,    \* _partition: the blocks [states, tmp, remove, counter, inset]
  relation,     \* _relation: [size, bits], bits the set of related index pairs
  index,        \* _index: the index of the block of each state (block_)
  queue,        \* _queue
  tmp,          \* run's local tmp: the pair taken off _queue (<<>> outside the loop body)
  rows,         \* the counter rows handed out by vectorAllocator_: [ref, master, vals]
  simResult     \* the relation computeSimulation returns (NoRelation before)

simVars == <<lts, inPartition, inRelation, outputSize, simPc, partition, relation,
             index, queue, tmp, rows, simResult>>

LtsStates == 0..(lts.states - 1)

LtsLabels == 0..(lts.labels - 1)

\* lts.post(a)[q]
Post(a, qq) == SortedSeq({e[3] : e \in {x \in lts.edges : x[1] = qq /\ x[2] = a}})

\* lts.pre(a)[r]
Pre(a, r) == SortedSeq({e[1] : e \in {x \in lts.edges : x[3] = r /\ x[2] = a}})

\* lts.bwLabels(q): the labels of the transitions entering q
BwLabels(qq) == {e[2] : e \in {x \in lts.edges : x[3] = qq}}

\* _delta1[a] after buildDelta: the states with an a-successor
Delta1(a) == {e[1] : e \in {x \in lts.edges : x[2] = a}}

\* _key[a * states + q]: the dense index of q within _delta1[a]
KeyOf(a, qq) == Cardinality({s \in Delta1(a) : s < qq})

\* _range[a]
RangeOf(a) == Cardinality(Delta1(a))

\* the labels of a SmartSet inset, in iteration order
InsetLabels(blk) == SortedSeq({a \in LtsLabels : blk.inset[a] > 0})

\* BinaryRelation::split(index, true): the new index copies row and column
RelSplit(rel, i) ==
  [size |-> rel.size + 1,
   bits |-> rel.bits
            \cup {<<x[1], rel.size>> : x \in {y \in rel.bits : y[2] = i}}
            \cup {<<rel.size, x[2]>> : x \in {y \in rel.bits : y[1] = i}}
            \cup {<<rel.size, rel.size>>}]

\* StateListElem::move out of _states into _tmp (OLRTBlock::moveToTmp)
moveToTmp(st, qq) ==
  LET b == st.index[qq]
      ring == st.partition[b + 1].states
  IN IF qq \notin Range(ring) THEN [st EXCEPT !.abort = TRUE]
     ELSE LET i == CHOOSE x \in 1..Len(ring) : ring[x] = qq
          IN [st EXCEPT !.partition[b + 1].states =
                            SubSeq(ring, i + 1, Len(ring)) \o SubSeq(ring, 1, i - 1),
                        !.partition[b + 1].tmp = Append(@, qq)]

\* OLRTBlock(lts, parent, index) followed by _partition.push_back
OLRTBlockFromParent(st, parent) ==
  LET ring == st.partition[parent + 1].tmp
      moved == [a \in LtsLabels |-> Cardinality({s \in Range(ring) : a \in BwLabels(s)})]
      child == [states |-> ring, tmp |-> <<>>,
                remove |-> [a \in LtsLabels |-> <<>>],
                counter |-> [a \in LtsLabels |-> 0],
                inset |-> moved]
      newIndex == Len(st.partition)
  IN [st EXCEPT
        !.partition = Append([@ EXCEPT ![parent + 1].tmp = <<>>,
                                       ![parent + 1].inset =
                                          [a \in LtsLabels |-> @[a] - moved[a]]], child),
        !.index = [s \in DOMAIN @ |-> IF s \in Range(ring) THEN newIndex ELSE @[s]]]

\* checkEmpty that reports the empty ring and leaves _tmp where it is
checkEmptyKept(st, b) ==
  [st |-> st, empty |-> st.partition[b + 1].states = <<>>]

\* OLRTBlock::checkEmpty
checkEmpty(st, b) ==
  IF st.partition[b + 1].states # <<>> THEN [st |-> st, empty |-> FALSE]
  ELSE [st |-> [st EXCEPT !.partition[b + 1].states = st.partition[b + 1].tmp,
                          !.partition[b + 1].tmp = <<>>],
        empty |-> TRUE]

RECURSIVE internalSplit(_, _, _)
internalSplit(st, remove, modifiedBlocks) ==
  IF remove = <<>> THEN [st |-> st, modifiedBlocks |-> modifiedBlocks]
  ELSE LET b == st.index[Head(remove)]
       IN internalSplit(moveToTmp(st, Head(remove)), Tail(remove),
                        IF b \in Range(modifiedBlocks) THEN modifiedBlocks
                        ELSE Append(modifiedBlocks, b))

RECURSIVE fastSplitBlocks(_, _)
\* the loop of fastSplit over modifiedBlocks
fastSplitBlocks(st, blocks) ==
  IF blocks = <<>> THEN st
  ELSE LET b == Head(blocks)
           ce == checkEmpty(st, b).st
       IN IF ce.partition[b + 1].tmp = <<>> THEN fastSplitBlocks(ce, Tail(blocks))
          ELSE fastSplitBlocks(
                 OLRTBlockFromParent([ce EXCEPT !.relation = RelSplit(@, b)], b),
                 Tail(blocks))

fastSplit(st, remove) ==
  LET r == internalSplit(st, remove, <<>>) IN fastSplitBlocks(r.st, r.modifiedBlocks)

\* SharedCounter::incr
incr(st, b, label, state) ==
  LET row == st.partition[b + 1].counter[label]
      k == KeyOf(label, state) + 1
  IN IF row # 0
     THEN [st EXCEPT !.rows[row].master = @ + 1, !.rows[row].vals[k] = @ + 1,
                     !.abort = @ \/ st.rows[row].ref # 1]
     ELSE [st EXCEPT
             !.rows = Append(@, [ref |-> 1, master |-> 1,
                                 vals |-> [i \in 1..RangeOf(label) |->
                                             IF i = k THEN 1 ELSE 0]]),
             !.partition[b + 1].counter[label] = Len(st.rows) + 1]

\* decr that writes to the row it finds, shared or not
decrInPlace(st, b, label, state) ==
  LET row == st.partition[b + 1].counter[label]
      k == KeyOf(label, state) + 1
  IN IF row = 0 THEN [st |-> [st EXCEPT !.abort = TRUE], value |-> 0]
     ELSE IF st.rows[row].master = 1
     THEN [st |-> [st EXCEPT !.rows[row].ref = @ - 1,
                             !.partition[b + 1].counter[label] = 0,
                             !.abort = @ \/ st.rows[row].vals[k] # 1],
           value |-> 0]
     ELSE [st |-> [st EXCEPT !.rows[row].master = @ - 1, !.rows[row].vals[k] = @ - 1],
           value |-> st.rows[row].vals[k] - 1]

\* SharedCounter::decr: the counter after the call and the value returned;
\* a reclaimed row keeps its place with ref = 0
decr(st, b, label, state) ==
  LET row == st.partition[b + 1].counter[label]
      k == KeyOf(label, state) + 1
  IN IF row = 0 THEN [st |-> [st EXCEPT !.abort = TRUE], value |-> 0]
     ELSE IF st.rows[row].master = 1
     THEN [st |-> [st EXCEPT !.rows[row].ref = @ - 1,
                             !.partition[b + 1].counter[label] = 0,
                             !.abort = @ \/ st.rows[row].vals[k] # 1],
           value |-> 0]
     ELSE IF st.rows[row].ref > 1
     THEN [st |-> [st EXCEPT
                     !.rows = Append([@ EXCEPT ![row].ref = @ - 1],
                                [ref |-> 1, master |-> st.rows[row].master - 1,
                                 vals |-> [st.rows[row].vals EXCEPT ![k] = @ - 1]]),
                     !.partition[b + 1].counter[label] = Len(st.rows) + 1],
           value |-> st.rows[row].vals[k] - 1]
     ELSE [st |-> [st EXCEPT !.rows[row].master = @ - 1, !.rows[row].vals[k] = @ - 1],
           value |-> st.rows[row].vals[k] - 1]

\* copyRow without the increment of the refCount
copyRowUncounted(st, newBlock, label, block) ==
  LET row == st.partition[block + 1].counter[label]
  IN IF row = 0 \/ st.partition[newBlock + 1].counter[label] # 0
     THEN [st EXCEPT !.abort = TRUE]
     ELSE [st EXCEPT !.partition[newBlock + 1].counter[label] = row]

\* SharedCounter::copyRow
copyRow(st, newBlock, label, block) ==
  LET row == st.partition[block + 1].counter[label]
  IN IF row = 0 \/ st.partition[newBlock + 1].counter[label] # 0
     THEN [st EXCEPT !.abort = TRUE]
     ELSE [st EXCEPT !.rows[row].ref = @ + 1,
                     !.partition[newBlock + 1].counter[label] = row]

enqueueToRemove(st, block, label, state) ==
  IF st.partition[block + 1].remove[label] = <<>>
  THEN [st EXCEPT !.partition[block + 1].remove[label] = <<state>>,
                  !.queue = Append(@, <<block, label>>)]
  ELSE [st EXCEPT !.partition[block + 1].remove[label] = Append(@, state)]

RECURSIVE buildPreStates(_, _, _)
\* the inner loop of buildPre over the predecessors of one state
buildPreStates(st, pres, pre) ==
  IF pres = <<>> THEN pre
  ELSE LET b == st.index[Head(pres)]
       IN buildPreStates(st, Tail(pres),
                         IF b \in Range(pre) THEN pre ELSE Append(pre, b))

RECURSIVE buildPre(_, _, _, _)
buildPre(st, pre, states, label) ==
  IF states = <<>> THEN pre
  ELSE buildPre(st, buildPreStates(st, Pre(label, Head(states)), pre), Tail(states), label)

RECURSIVE splitInsetUnqueued(_, _, _, _)
\* the loop of split with the copy of the remove list and no push_back
splitInsetUnqueued(st, block, newBlock, labels) ==
  IF labels = <<>> THEN st
  ELSE LET a == Head(labels)
           copied == copyRow(st, newBlock, a, block)
           rem == st.partition[block + 1].remove[a]
           queued == IF rem = <<>> THEN copied
                     ELSE [copied EXCEPT !.partition[newBlock + 1].remove[a] = rem]
       IN splitInsetUnqueued(queued, block, newBlock, Tail(labels))

RECURSIVE splitInset(_, _, _, _)
\* the loop of split over newBlock->inset()
splitInset(st, block, newBlock, labels) ==
  IF labels = <<>> THEN st
  ELSE LET a == Head(labels)
           copied == copyRow(st, newBlock, a, block)
           rem == st.partition[block + 1].remove[a]
           queued == IF rem = <<>> THEN copied
                     ELSE [copied EXCEPT !.queue = Append(@, <<newBlock, a>>),
                                         !.partition[newBlock + 1].remove[a] = rem]
       IN splitInset(queued, block, newBlock, Tail(labels))

RECURSIVE splitBlocks(_, _, _)
\* the loop of split over modifiedBlocks
splitBlocks(st, removeList, blocks) ==
  IF blocks = <<>> THEN [st |-> st, removeList |-> removeList]
  ELSE LET b == Head(blocks)
           ce == checkEmpty(st, b)
           newBlock == Len(st.partition)
           made == OLRTBlockFromParent([ce.st EXCEPT !.relation = RelSplit(@, b)], b)
       IN IF ce.empty THEN splitBlocks(ce.st, Append(removeList, b), Tail(blocks))
          ELSE splitBlocks(
                 splitInset(made, b, newBlock, InsetLabels(made.partition[newBlock + 1])),
                 Append(removeList, newBlock), Tail(blocks))

split(st, remove) ==
  LET r == internalSplit(st, remove, <<>>) IN splitBlocks(r.st, <<>>, r.modifiedBlocks)

RECURSIVE decrPredecessorsSilent(_, _, _, _)
\* the counters are decremented and no state is put on a remove list
decrPredecessorsSilent(st, b1, a, pres) ==
  IF pres = <<>> \/ st.abort THEN st
  ELSE decrPredecessorsSilent(decr(st, b1, a, Head(pres)).st, b1, a, Tail(pres))

RECURSIVE decrPredecessors(_, _, _, _)
\* lines 598-602: the predecessors pre2 of one state of b2
decrPredecessors(st, b1, a, pres) ==
  IF pres = <<>> \/ st.abort THEN st
  ELSE LET d == decr(st, b1, a, Head(pres))
       IN decrPredecessors(
            IF d.value = 0 /\ ~d.st.abort
            THEN enqueueToRemove(d.st, b1, a, Head(pres)) ELSE d.st,
            b1, a, Tail(pres))

RECURSIVE decrStates(_, _, _, _)
\* lines 594-608: the ring of b2
decrStates(st, b1, a, states) ==
  IF states = <<>> THEN st
  ELSE decrStates(decrPredecessors(st, b1, a, Pre(a, Head(states))), b1, a, Tail(states))

RECURSIVE decrLabels(_, _, _, _)
\* lines 589-610: the labels of b2's inset that b1's inset contains
decrLabels(st, b1, b2, labels) ==
  IF labels = <<>> THEN st
  ELSE decrLabels(
         IF st.partition[b1 + 1].inset[Head(labels)] = 0 THEN st
         ELSE decrStates(st, b1, Head(labels), st.partition[b2 + 1].states),
         b1, b2, Tail(labels))

RECURSIVE pruneRemoveList(_, _, _)
\* lines 580-612: one block b1 of preList against removeList
pruneRemoveList(st, b1, removeList) ==
  IF removeList = <<>> THEN st
  ELSE LET b2 == Head(removeList)
       IN IF b1 = b2 THEN [st EXCEPT !.abort = TRUE]
          ELSE IF <<b1, b2>> \notin st.relation.bits
          THEN pruneRemoveList(st, b1, Tail(removeList))
          ELSE pruneRemoveList(
                 decrLabels([st EXCEPT !.relation.bits = @ \ {<<b1, b2>>}], b1, b2,
                            InsetLabels(st.partition[b2 + 1])),
                 b1, Tail(removeList))

RECURSIVE prunePreList(_, _, _)
prunePreList(st, preList, removeList) ==
  IF preList = <<>> THEN st
  ELSE prunePreList(pruneRemoveList(st, Head(preList), removeList),
                    Tail(preList), removeList)

processRemove(st, block, label) ==
  LET remove == st.partition[block + 1].remove[label]
      taken == [st EXCEPT !.partition[block + 1].remove[label] = <<>>,
                          !.abort = @ \/ remove = <<>>]
      preList == buildPre(taken, <<>>, taken.partition[block + 1].states, label)
      sp == split(taken, remove)
  IN prunePreList(sp.st, preList, sp.removeList)

\* OLRTAlgorithm(lts): one block holding the ring of all states
OLRTAlgorithm ==
  [partition |-> <<[states |-> [i \in 1..lts.states |-> i - 1], tmp |-> <<>>,
                    remove |-> [a \in LtsLabels |-> <<>>],
                    counter |-> [a \in LtsLabels |-> 0],
                    inset |-> [a \in LtsLabels |->
                                 Cardinality({s \in LtsStates : a \in BwLabels(s)})]]>>,
   relation |-> [size |-> 0, bits |-> {}],
   index |-> [s \in LtsStates |-> 0],
   queue |-> <<>>,
   rows |-> <<>>,
   abort |-> FALSE]

RECURSIVE moveAllToTmp(_, _)
moveAllToTmp(st, states) ==
  IF states = <<>> THEN st
  ELSE moveAllToTmp(
         moveToTmp([st EXCEPT !.abort = @ \/ st.index[Head(states)] # 0], Head(states)),
         Tail(states))

makeBlock(st, states) ==
  LET moved == moveAllToTmp(st, states)
  IN OLRTBlockFromParent(
       [moved EXCEPT !.abort = @ \/ moved.partition[1].states = <<>>], 0)

RECURSIVE makeBlocks(_, _)
\* lines 694-695
makeBlocks(st, i) ==
  IF i > Len(inPartition) THEN st ELSE makeBlocks(makeBlock(st, inPartition[i]), i + 1)

RECURSIVE fastSplitLabels(_, _)
\* lines 716-718
fastSplitLabels(st, a) ==
  IF a >= lts.labels THEN st
  ELSE fastSplitLabels(fastSplit(st, SortedSeq(Delta1(a))), a + 1)

\* the relation is left as fastSplit made it
prePruneSkipped(st) == st

\* lines 720-756: b1 has a state with an a-successor, b2 a state without
prePrune(st) ==
  [st EXCEPT !.relation.bits =
     @ \ {x \in (0..(Len(st.partition) - 1)) \X (0..(Len(st.partition) - 1)) :
            \E a \in LtsLabels :
               /\ \E s \in Range(st.partition[x[1] + 1].states) : s \in Delta1(a)
               /\ \E s \in Range(st.partition[x[2] + 1].states) : s \notin Delta1(a)},
           !.abort = @ \/ \E b \in 0..(Len(st.partition) - 1) : \E a \in LtsLabels :
               /\ \E s \in Range(st.partition[b + 1].states) : s \in Delta1(a)
               /\ \E s \in Range(st.partition[b + 1].states) : s \notin Delta1(a)]

RECURSIVE incrSuccessorsAll(_, _, _, _, _)
\* every successor is counted, related or not
incrSuccessorsAll(st, i, a, qq, succs) ==
  IF succs = <<>> THEN st
  ELSE incrSuccessorsAll(incr(st, i, a, qq), i, a, qq, Tail(succs))

RECURSIVE incrSuccessors(_, _, _, _, _)
\* lines 768-773: the successors r of q
incrSuccessors(st, i, a, qq, succs) ==
  IF succs = <<>> THEN st
  ELSE incrSuccessors(
         IF <<i, st.index[Head(succs)]>> \in st.relation.bits THEN incr(st, i, a, qq)
         ELSE st,
         i, a, qq, Tail(succs))

RECURSIVE incrStates(_, _, _, _)
\* lines 766-775: the states q of _delta1[a]
incrStates(st, i, a, states) ==
  IF states = <<>> THEN st
  ELSE incrStates(incrSuccessors(st, i, a, Head(states), Post(a, Head(states))),
                  i, a, Tail(states))

\* every state of _delta1[a] is taken for the initial remove list
initialRemoveAll(st, i, a) == Delta1(a)

\* lines 777-794: s, the states of _delta1[a] without an a-successor in a
\* block related to block i
initialRemove(st, i, a) ==
  Delta1(a) \ {e[1] : e \in {x \in lts.edges :
                 x[2] = a /\ <<i, st.index[x[3]]>> \in st.relation.bits}}

RECURSIVE initLabels(_, _, _)
\* lines 764-802: the labels of the inset of block i
initLabels(st, i, labels) ==
  IF labels = <<>> THEN st
  ELSE LET a == Head(labels)
           counted == incrStates(st, i, a, SortedSeq(Delta1(a)))
           s == initialRemove(counted, i, a)
       IN initLabels(
            IF s = {} THEN counted
            ELSE [counted EXCEPT !.partition[i + 1].remove[a] = SortedSeq(s),
                                 !.queue = Append(@, <<i, a>>)],
            i, Tail(labels))

RECURSIVE initBlocks(_, _)
\* lines 762-806: the blocks in reverse order
initBlocks(st, i) ==
  IF i < 0 THEN st
  ELSE initBlocks(initLabels(st, i, InsetLabels(st.partition[i + 1])), i - 1)

\* OLRTAlgorithm::isConsistent
isConsistent(st) ==
  /\ Len(st.partition) = st.relation.size
  /\ \A i \in 0..(Len(st.partition) - 1) : <<i, i>> \in st.relation.bits

\* OLRTAlgorithm::init
init(st) ==
  LET made == makeBlocks(st, 2)
      related == [made EXCEPT !.relation = inRelation,
                              !.abort = @ \/ ~isConsistent([made EXCEPT !.relation = inRelation])]
      pruned == prePrune(fastSplitLabels(related, 0))
  IN initBlocks(pruned, Len(pruned.partition) - 1)

\* OLRTAlgorithm::buildResult
buildResult(size) ==
  [size |-> size,
   bits |-> {x \in (0..(size - 1)) \X (0..(size - 1)) :
               <<index[x[1]], index[x[2]]>> \in relation.bits}]

SimInputsUnchanged == UNCHANGED <<lts, inPartition, inRelation, outputSize>>

\* the members of the algorithm object after a step
SimInstall(st) ==
  /\ partition' = st.partition
  /\ relation' = st.relation
  /\ index' = st.index
  /\ queue' = st.queue
  /\ rows' = st.rows
  /\ simPc' = IF st.abort THEN "aborted" ELSE "run"

SimState ==
  [partition |-> partition, relation |-> relation, index |-> index, queue |-> queue,
   rows |-> rows, abort |-> FALSE]

\* lines 857-858
ReturnEmpty ==
  /\ simPc = "start"
  /\ lts.states = 0
  /\ simResult' = [size |-> 0, bits |-> {}]
  /\ simPc' = "done"
  /\ UNCHANGED <<partition, relation, index, queue, tmp, rows>>
  /\ SimInputsUnchanged

\* lines 860-862: OLRTAlgorithm alg(*this); alg.init(partition, relation);
AlgInit ==
  /\ simPc = "start"
  /\ lts.states # 0
  /\ SimInstall(init(OLRTAlgorithm))
  /\ UNCHANGED <<tmp, simResult>>
  /\ SimInputsUnchanged

\* the pair is read and left on the worklist
RunPopKept ==
  /\ simPc = "run"
  /\ queue # <<>>
  /\ tmp' = queue[Len(queue)]
  /\ simPc' = "remove"
  /\ UNCHANGED <<queue, partition, relation, index, rows, simResult>>
  /\ SimInputsUnchanged

\* run, the head of an iteration: tmp(_queue.back()); _queue.pop_back();
RunPop ==
  /\ simPc = "run"
  /\ queue # <<>>
  /\ tmp' = queue[Len(queue)]
  /\ queue' = SubSeq(queue, 1, Len(queue) - 1)
  /\ simPc' = "remove"
  /\ UNCHANGED <<partition, relation, index, rows, simResult>>
  /\ SimInputsUnchanged

\* run, the rest of the iteration: processRemove(tmp.first, tmp.second);
RunProcessRemove ==
  /\ simPc = "remove"
  /\ SimInstall(processRemove(SimState, tmp[1], tmp[2]))
  /\ tmp' = <<>>
  /\ UNCHANGED simResult
  /\ SimInputsUnchanged

\* lines 864-870
BuildResult ==
  /\ simPc = "run"
  /\ queue = <<>>
  /\ simResult' = buildResult(outputSize)
  /\ simPc' = "done"
  /\ UNCHANGED <<partition, relation, index, queue, tmp, rows>>
  /\ SimInputsUnchanged

(***************************************************************************)
(* Inputs of the simulation engine.                                        *)
(***************************************************************************)
SimStateIds == {0, 1, 2}

SimLabelIds == {0, 1}

\* the edges of the enumerated LTSs; label 1 joins the states 0 and 1 only
EdgePool ==
  {<<s, 0, t>> : s \in SimStateIds, t \in SimStateIds}
  \cup {<<s, 1, t>> : s \in {0, 1}, t \in {0, 1}}

EdgeSets(n) ==
  {X \in SUBSET {e \in EdgePool : e[1] < n /\ e[3] < n} : Cardinality(X) <= MaxEdges}

\* the partitions of the states 0..n-1 into blocks, the blocks in the order
\* of their least states
PartitionsOf(n) ==
  {[i \in 1..Cardinality({f[s] : s \in 0..(n - 1)}) |->
      SortedSeq({s \in 0..(n - 1) : f[s] = i - 1})] :
     f \in {g \in [0..(n - 1) -> 0..(n - 1)] :
              \A s \in 0..(n - 1) :
                 g[s] <= Cardinality({g[t] : t \in 0..(s - 1)})
                 /\ (s = 0 => g[s] = 0)}}

\* the reflexive relations on k blocks
ReflexiveRelations(k) ==
  {[size |-> k, bits |-> {<<i, i>> : i \in 0..(k - 1)} \cup X] :
     X \in SUBSET {x \in (0..(k - 1)) \X (0..(k - 1)) : x[1] # x[2]}}

\* the output sizes tried for n states in k blocks
OutputSizes(n, k) ==
  IF n = 0 THEN {0, 1} ELSE IF k = 1 THEN {n - 1, n} ELSE {n}

\* before the call: no LTS yet
SimInit ==
  /\ lts = [states |-> 0, labels |-> Cardinality(SimLabelIds), edges |-> {}]
  /\ inPartition = <<>>
  /\ inRelation = [size |-> 0, bits |-> {}]
  /\ outputSize = 0
  /\ simPc = "created"
  /\ partition = <<>>
  /\ relation = [size |-> 0, bits |-> {}]
  /\ index = <<>>
  /\ queue = <<>>
  /\ tmp = <<>>
  /\ rows = <<>>
  /\ simResult = NoRelation

\* an LTS is built and computeSimulation is called on it with a partition of
\* its states, a reflexive relation on the blocks and an output size
Call ==
  /\ simPc = "created"
  /\ \E n \in 0..Cardinality(SimStateIds) :
       \E P \in PartitionsOf(n) :
         \E E \in EdgeSets(n), R \in ReflexiveRelations(Len(P)), o \in OutputSizes(n, Len(P)) :
           /\ lts' = [states |-> n, labels |-> Cardinality(SimLabelIds), edges |-> E]
           /\ inPartition' = P
           /\ inRelation' = R
           /\ outputSize' = o
  /\ simPc' = "start"
  /\ UNCHANGED <<partition, relation, index, queue, tmp, rows, simResult>>

(***************************************************************************)
(* Repeated calls: a caller calls checkInternal, or computeSimulation,     *)
(* once more on the inputs of a call that returned.  The locals of the     *)
(* first call are gone; those of the second call are constructed anew.     *)
(***************************************************************************)
\* the main loop of checkInternal taking any pending pair instead of
\* next.begin()
PopNextAny ==
  /\ upPc = "loop"
  /\ next # {}
  /\ popAny
  /\ \E e \in next :
       /\ q' = e.smaller
       /\ Q' = e.bigger
       /\ next' = next \ {e}
       /\ todo' = SmallerIndexSeq(e.smaller, 0)
       /\ unordered' = (unordered \/ \E f \in next : ElemLess(f, e))
  /\ upPc' = "expand"
  /\ UNCHANGED <<symbol, processed, result, description, descCount, popAny, firstReturn>>
  /\ UpInputsUnchanged

\* the second call finding the antichain and the next set of the first one
CheckAgainKept ==
  /\ upPc = "done"
  /\ firstReturn = <<>>
  /\ firstReturn' = <<result>>
  /\ popAny' \in BOOLEAN
  /\ upPc' = "start"
  /\ symbol' = 0
  /\ q' = 0
  /\ Q' = <<>>
  /\ todo' = <<>>
  /\ result' = NoVerdict
  /\ description' = ""
  /\ descCount' = 0
  /\ UNCHANGED <<processed, next, unordered>>
  /\ UpInputsUnchanged

\* checkInternal is called again on the same automata and preorder: lines
\* 279-361 construct the caches, the antichains and next
CheckAgain ==
  /\ upPc = "done"
  /\ firstReturn = <<>>
  /\ firstReturn' = <<result>>
  /\ popAny' \in BOOLEAN
  /\ upPc' = "start"
  /\ symbol' = 0
  /\ processed' = EmptyAC2
  /\ next' = {}
  /\ q' = 0
  /\ Q' = <<>>
  /\ todo' = <<>>
  /\ result' = NoVerdict
  /\ description' = ""
  /\ descCount' = 0
  /\ UNCHANGED unordered
  /\ UpInputsUnchanged

\* computeSimulation is called again on the same LTS with the same
\* arguments: line 858 constructs the algorithm
ComputeAgain ==
  /\ simPc = "done"
  /\ firstReturn = <<>>
  /\ firstReturn' = <<simResult>>
  /\ simPc' = "start"
  /\ partition' = <<>>
  /\ relation' = [size |-> 0, bits |-> {}]
  /\ index' = <<>>
  /\ queue' = <<>>
  /\ tmp' = <<>>
  /\ rows' = <<>>
  /\ simResult' = NoRelation
  /\ UNCHANGED <<popAny, unordered>>
  /\ SimInputsUnchanged

(***************************************************************************)
(* The Antichain2C processed under the operations checkInternal calls on   *)
(* it, in any order: insert, refine with gte on the keys inv[k], clear.    *)
(***************************************************************************)
\* the longest list of macro-states kept under one key
MaxList == 2

AcKeys == {0, 1}

AcValues == {SortedSeq(S) : S \in SUBSET {3, 4}}

\* the reflexive relations the antichain is used with
AcPreorders == {Identity \cup X : X \in SUBSET {<<0, 1>>, <<3, 4>>, <<4, 3>>}}

AcInsert ==
  /\ upPc = "idle"
  /\ \E k \in AcKeys, v \in AcValues :
       /\ Len(processed[k]) < MaxList
       /\ processed' = AC2Insert(processed, k, v)
       /\ inserted' = inserted \cup {<<k, v>>}

AcRefine ==
  /\ upPc = "idle"
  /\ \E k \in AcKeys, v \in AcValues :
       processed' = AC2Refine(processed, inv[k], v, "gte")
  /\ inserted' = {}

AcClear ==
  /\ upPc = "idle"
  /\ processed # EmptyAC2
  /\ processed' = EmptyAC2
  /\ inserted' = {}

AcAlone ==
  UNCHANGED <<smaller, bigger, preorder, useIdentity, firstResult, upPc, symbol, next,
              q, Q, todo, result, description, descCount, downVars, simVars,
              isectVars, repeatVars, choiceVars, cacheVars, functorVars>>

(***************************************************************************)
(* ChoiceVector on its own: build for one smaller transition and slot,     *)
(* then the do/while over next().  todo holds the transition and its slot, *)
(* processed the lists, Q the macro-state of the fixed slot.               *)
(***************************************************************************)
\* the largest number of children of the transition
MaxArity == 3

CvKeys == {0, 1, 2}

CvValues == {<<3>>, <<4>>}

\* the lists of processed: no macro-state twice under one key
CvLists ==
  {l \in UNION {[1..n -> CvValues] : n \in 0..MaxList} :
     \A i \in 1..Len(l) : \A j \in 1..Len(l) : i # j => l[i] # l[j]}

CvChildren == UNION {[1..n -> CvKeys] : n \in 1..MaxArity}

\* ChoiceVector::operator() at every index: the macro-states of a choice
ChoiceAt(state, lists) == [i \in 1..Len(state) |-> lists[i][state[i]]]

\* choiceVector.build(children, j) and, when it succeeds, the first run of
\* the body of the do/while
ChoiceVectorBuild ==
  /\ upPc = "idle" /\ todo # <<>> /\ choiceState = <<>>
  /\ LET children == Head(todo).trans.children
         j == Head(todo).slot
         lists == ChoiceLists(children, j, processed, Q)
     IN IF ~ChoiceBuild(children, j, processed, Q)
        THEN upPc' = "skipped" /\ UNCHANGED <<choiceState, visited>>
        ELSE /\ upPc' = "choice"
             /\ choiceState' = [i \in 1..Len(children) |-> 1]
             /\ visited' = <<ChoiceAt(choiceState', lists)>>
  /\ UNCHANGED <<processed, Q, todo>>

\* while (choiceVector.next()): one more run of the body, or the end
ChoiceVectorStep ==
  /\ upPc = "choice"
  /\ LET lists == ChoiceLists(Head(todo).trans.children, Head(todo).slot, processed, Q)
         nx == ChoiceNext(choiceState, lists)
     IN /\ choiceState' = nx.state
        /\ IF nx.more
           THEN visited' = Append(visited, ChoiceAt(nx.state, lists)) /\ UNCHANGED upPc
           ELSE upPc' = "exhausted" /\ UNCHANGED visited
  /\ UNCHANGED <<processed, Q, todo>>

CvAlone ==
  UNCHANGED <<smaller, bigger, preorder, useIdentity, firstResult, symbol, next, q,
              result, description, descCount, downVars, simVars, isectVars,
              repeatVars, inserted, cacheVars, functorVars>>

(***************************************************************************)
(* The caches of one inclusion run: the macro-state cache biggerTypeCache, *)
(* lteCache and evalTransitionsCache.  A macro-state is known to the two   *)
(* memoizers by its address.  The operations are issued in any order on    *)
(* macro-states that are alive, as checkInternal issues them on the        *)
(* macro-states its antichains, Q and ptr hold.                            *)
(***************************************************************************)
\* holders of one macro-state (lists of the antichains, Q, ptr)
MaxRefs == 2

\* the addresses the allocator hands out: fewer than there are macro-states,
\* so that an address is used again for another macro-state
Addresses == {1, 2}

CacheValues == {<<3>>, <<4>>, <<3, 4>>}

CachePreorders ==
  {Identity, Identity \cup {<<3, 4>>}, Identity \cup {<<3, 4>>, <<4, 3>>}}

CacheBigger ==
  [trans |-> {Bin(2, 3, 3, 3), Bin(2, 3, 4, 4), Bin(2, 4, 3, 3)}, final |-> {3}]

Alive(a) == biggerTypeCache[a].refs > 0

\* the listener given to biggerTypeCache, without lteCache.invalidateSecond
EvictionCallbackFirstOnly(v) ==
  [lte |-> {e \in lteCache : e[1] # v},
   eval |-> {e \in evalTransitionsCache : e[3] # v}]


\* the listener given to biggerTypeCache: the memoizers after the eviction
\* of the macro-state at address v
EvictionCallback(v) ==
  [lte |-> {e \in lteCache : e[1] # v /\ e[2] # v},
   eval |-> {e \in evalTransitionsCache : e[3] # v}]

\* biggerTypeCache.lookup(tmp): the address of the equal macro-state, or a
\* new macro-state at an address the allocator picks
CacheLookup ==
  /\ upPc = "idle"
  /\ \E v \in CacheValues :
       IF \E a \in Addresses : Alive(a) /\ biggerTypeCache[a].set = v
       THEN \E a \in Addresses :
              /\ Alive(a) /\ biggerTypeCache[a].set = v
              /\ biggerTypeCache[a].refs < MaxRefs
              /\ biggerTypeCache' = [biggerTypeCache EXCEPT ![a].refs = @ + 1]
       ELSE \E a \in Addresses :
              /\ ~Alive(a)
              /\ biggerTypeCache' = [biggerTypeCache EXCEPT ![a].set = v, ![a].refs = 1]
  /\ UNCHANGED <<lteCache, evalTransitionsCache>>

\* a holder lets go of the macro-state at address a; the last one evicts it
CacheRelease ==
  /\ upPc = "idle"
  /\ \E a \in Addresses :
       /\ Alive(a)
       /\ IF biggerTypeCache[a].refs > 1
          THEN /\ biggerTypeCache' = [biggerTypeCache EXCEPT ![a].refs = @ - 1]
               /\ UNCHANGED <<lteCache, evalTransitionsCache>>
          ELSE /\ biggerTypeCache' = [biggerTypeCache EXCEPT
                                      ![a] = [set |-> <<>>, refs |-> 0, reused |-> TRUE]]
               /\ lteCache' = EvictionCallback(a).lte
               /\ evalTransitionsCache' = EvictionCallback(a).eval

\* lte(x, y) on two macro-states of different addresses
CachedLte ==
  /\ upPc = "idle"
  /\ \E x \in Addresses, y \in Addresses :
       /\ Alive(x) /\ Alive(y) /\ x # y
       /\ ~\E e \in lteCache : e[1] = x /\ e[2] = y
       /\ lteCache' = lteCache \cup
            {<<x, y, noncachedLte(biggerTypeCache[x].set, biggerTypeCache[y].set)>>}
  /\ UNCHANGED <<biggerTypeCache, evalTransitionsCache>>

\* evalTransitions(symbol, i, states)
CachedEvalTransitions ==
  /\ upPc = "idle"
  /\ \E sym \in BinarySymbols, i \in {0, 1}, x \in Addresses :
       /\ Alive(x)
       /\ ~\E e \in evalTransitionsCache : e[1] = sym /\ e[2] = i /\ e[3] = x
       /\ evalTransitionsCache' = evalTransitionsCache \cup
            {<<sym, i, x, evalTransitions(sym, i, biggerTypeCache[x].set)>>}
  /\ UNCHANGED <<biggerTypeCache, lteCache>>

CacheAlone ==
  UNCHANGED <<upVars, downVars, simVars, isectVars, repeatVars, inserted, choiceVars,
              functorVars>>

(***************************************************************************)
(* Specifications.                                                         *)
(***************************************************************************)
vars == <<upVars, downVars, simVars, isectVars, repeatVars, inserted, choiceVars, cacheVars, functorVars>>

\* the state of a checker that is not running
UpIdle ==
  /\ useIdentity = TRUE /\ firstResult = NoVerdict /\ upPc = "idle" /\ symbol = 0
  /\ processed = EmptyAC2 /\ next = {} /\ q = 0 /\ Q = <<>> /\ todo = <<>>
  /\ result = NoVerdict /\ description = "" /\ descCount = 0

DownIdle ==
  /\ downPc = "idle" /\ downStack = <<>> /\ workset = EmptyBag
  /\ nonIncl = EmptyAC2 /\ downResult = NoVerdict /\ downCalls = {} /\ cout = <<>>

\* Intersection is not running
IsectIdle ==
  /\ isectPc = "idle" /\ lhs = [trans |-> {}, final |-> {}]
  /\ rhs = [trans |-> {}, final |-> {}] /\ translMap = EmptyMap
  /\ isectWorkset = EmptyMap /\ isectResult = [count |-> 0, final |-> {}, trans |-> {}]
  /\ setCalls = <<>>

SimIdle ==
  /\ lts = [states |-> 0, labels |-> 0, edges |-> {}]
  /\ inPartition = <<>> /\ inRelation = [size |-> 0, bits |-> {}] /\ outputSize = 0
  /\ simPc = "idle" /\ partition = <<>> /\ relation = [size |-> 0, bits |-> {}]
  /\ index = <<>> /\ queue = <<>> /\ tmp = <<>> /\ rows = <<>> /\ simResult = NoRelation

AutomataIdle ==
  /\ smaller = [trans |-> {}, final |-> {}] /\ bigger = [trans |-> {}, final |-> {}]
  /\ preorder = Identity

\* the other components stand still
UpAlone == UNCHANGED <<downVars, simVars, isectVars, repeatVars, inserted, choiceVars, cacheVars, functorVars>>

DownAlone ==
  UNCHANGED <<useIdentity, firstResult, upPc, symbol, processed, next, q, Q, todo,
              result, description, descCount, simVars, isectVars, repeatVars, inserted,
              choiceVars, cacheVars, functorVars>>

SimAlone == UNCHANGED <<upVars, downVars, isectVars, repeatVars, inserted, choiceVars, cacheVars, functorVars>>

IsectAlone == UNCHANGED <<upVars, downVars, simVars, repeatVars, inserted, choiceVars, cacheVars, functorVars>>

(***************************************************************************)
(* A SequentialChoiceFunctionGenerator run on its own, in the loop of      *)
(* operator(): while (!cfGen.IsLast()) { cf = cfGen.GetNext(); ... }.      *)
(***************************************************************************)
MaxCfLength == 3

MaxCfRange == 4

\* no generator has been constructed
NoGenerator == [cf |-> <<>>, last |-> 0, range |-> 0, pc |-> "idle"]

CfGenIdle == cfGen = NoGenerator /\ cfYield = <<>>

CfGenAlone ==
  UNCHANGED <<upVars, downVars, simVars, isectVars, repeatVars, inserted, choiceVars,
              cacheVars, expandAnswers>>

\* one round of the loop: IsLast() is false and GetNext() returns the next choice function
CfLoopBody ==
  /\ cfGen.pc = "loop"
  /\ ~CfIsLast(cfGen.last)
  /\ LET g == CfGetNext(cfGen.cf, cfGen.last, cfGen.range)
     IN /\ cfGen' = [cfGen EXCEPT !.cf = g.cf, !.last = g.last]
        /\ cfYield' = Append(cfYield, g.cf)

\* IsLast() is true: the loop is left
CfLoopExit ==
  /\ cfGen.pc = "loop"
  /\ CfIsLast(cfGen.last)
  /\ cfGen' = [cfGen EXCEPT !.pc = "done"]
  /\ UNCHANGED cfYield

CfGenNext ==
  \/ CfLoopBody /\ CfGenAlone
  \/ CfLoopExit /\ CfGenAlone

\* the generator is constructed with a length of at least 1 (line 206) and any range
CfGenInit ==
  /\ \E length \in 1..MaxCfLength, range \in 0..MaxCfRange :
       cfGen = [cf |-> CfInit(length, range).cf, last |-> CfInit(length, range).last,
                range |-> range, pc |-> "loop"]
  /\ cfYield = <<>>

\* no call is repeated
RepeatIdle ==
  /\ popAny = FALSE /\ unordered = FALSE /\ firstReturn = <<>> /\ inserted = {}
  /\ choiceState = <<>> /\ visited = <<>>
  /\ biggerTypeCache = <<>> /\ lteCache = {} /\ evalTransitionsCache = {}
  /\ expandAnswers = <<>>
  /\ CfGenIdle

\* the steps of checkInternal
UpNext ==
  \/ CheckLeafSizes /\ UpAlone
  \/ SeedSymbol /\ UpAlone
  \/ SeedDone /\ UpAlone
  \/ PopNext /\ UpAlone
  \/ ExpandTransition /\ UpAlone
  \/ ExpandDone /\ UpAlone
  \/ Proved /\ UpAlone
  \/ RunWithPreorder /\ UpAlone

\* the steps of expand and operator()
DownNext ==
  \/ ExpandFiltered /\ DownAlone
  \/ ExpandEnter /\ DownAlone
  \/ ExpandReturn /\ DownAlone
  \/ DownFinish /\ DownAlone
  \/ MainSecondCheck /\ DownAlone

\* the steps of computeSimulation
SimNext ==
  \/ Call /\ SimAlone
  \/ ReturnEmpty /\ SimAlone
  \/ AlgInit /\ SimAlone
  \/ RunPop /\ SimAlone
  \/ RunProcessRemove /\ SimAlone
  \/ BuildResult /\ SimAlone

\* the steps of Intersection
IsectNext ==
  \/ IsectSeed /\ IsectAlone
  \/ IsectLoop /\ IsectAlone
  \/ IsectReturn /\ IsectAlone

\* the steps of two calls of checkInternal, or of computeSimulation
TwiceNext ==
  \/ CheckLeafSizes /\ UpAlone
  \/ SeedSymbol /\ UpAlone
  \/ SeedDone /\ UpAlone
  \/ PopNext /\ UpAlone
  \/ PopNextAny /\ UNCHANGED <<downVars, simVars, isectVars, inserted, choiceVars, cacheVars, functorVars>>
  \/ ExpandTransition /\ UpAlone
  \/ ExpandDone /\ UpAlone
  \/ Proved /\ UpAlone
  \/ CheckAgain /\ UNCHANGED <<downVars, simVars, isectVars, inserted, choiceVars, cacheVars, functorVars>>
  \/ Call /\ SimAlone
  \/ ReturnEmpty /\ SimAlone
  \/ AlgInit /\ SimAlone
  \/ RunPop /\ SimAlone
  \/ RunProcessRemove /\ SimAlone
  \/ BuildResult /\ SimAlone
  \/ ComputeAgain /\ UNCHANGED <<upVars, downVars, isectVars, inserted, choiceVars, cacheVars, functorVars>>

(***************************************************************************)
(* The downward checker with a preorder: downward simulations on the union *)
(* of the two automata.                                                    *)
(***************************************************************************)
\* p R r may stay: r answers every transition from p with the same symbol
\* and children that are above the children of p
DownwardStep(R, p, r) ==
  \A t \in UnionTrans :
     t.state = p =>
       \E u \in UnionTrans :
          /\ u.state = r
          /\ u.symbol = t.symbol
          /\ \A i \in 1..Len(t.children) : <<t.children[i], u.children[i]>> \in R

RECURSIVE MaxDownwardSimFrom(_)
MaxDownwardSimFrom(R) ==
  LET R2 == {x \in R : DownwardStep(R, x[1], x[2])}
  IN IF R2 = R THEN R ELSE MaxDownwardSimFrom(R2)

MaxDownwardSim ==
  Identity \cup MaxDownwardSimFrom(OccurringStates \X OccurringStates)

\* two states of the bigger automaton accept the leaf of the smaller one,
\* each in a tuple whose second state does not
ScenarioChildren ==
  [smaller |-> [trans |-> {Leaf(0, 0), Bin(2, 0, 0, 1)}, final |-> {1}],
   bigger |-> [trans |-> {Leaf(0, 3), Leaf(0, 5), Leaf(1, 4), Bin(2, 3, 4, 4),
                          Bin(2, 5, 4, 4)}, final |-> {4}]]

\* state 4 of the bigger automaton is below its state 3, and neither accepts
\* the leaf of the smaller one
ScenarioRefuted ==
  [smaller |-> [trans |-> {Leaf(0, 0), Bin(2, 0, 0, 1)}, final |-> {1}],
   bigger |-> [trans |-> {Leaf(1, 3), Leaf(1, 4), Bin(2, 4, 4, 3), Bin(2, 3, 3, 5),
                          Bin(2, 4, 3, 5)}, final |-> {5}]]

DownSimInputs == DownInputs \cup {ScenarioChildren, ScenarioRefuted}

DownSimInit ==
  /\ \E x \in DownSimInputs : smaller = x.smaller /\ bigger = x.bigger
  /\ preorder \in {Identity, MaxDownwardSim}
  /\ DownStart

(***************************************************************************)
(* One functor called on its own: operator() for a symbol of its state,    *)
(* with the answers of expand given by a table, and Reset.  downStack      *)
(* holds the functor's frame; its mode is "done" between two calls and its *)
(* syms the symbol of the last call since Reset.                           *)
(***************************************************************************)
FunctorPoolSmaller ==
  {Leaf(0, 2), Leaf(1, 2)} \cup {Bin(2, c[1], c[2], 2) : c \in {0, 1} \X {0, 1}}

FunctorPoolBigger ==
  {Leaf(0, 5)} \cup {Bin(2, c[1], c[2], 5) : c \in {3, 4} \X {3, 4}}

FunctorInputs ==
  {x \in {[smaller |-> [trans |-> TS, final |-> {2}], bigger |-> [trans |-> TB, final |-> {5}]] :
            TS \in SUBSET FunctorPoolSmaller, TB \in SUBSET FunctorPoolBigger} :
     Cardinality(x.smaller.trans) + Cardinality(x.bigger.trans) <= MaxTrans}

\* the calls of expand the functor can make on these automata
ExpandCalls == {[p |-> c, S |-> X] : c \in {0, 1}, X \in (SUBSET {3, 4}) \ {{}}}

\* Reset
FunctorReset(f) == [f EXCEPT !.holds = TRUE, !.mode = "done", !.syms = <<>>]

FunctorAlone ==
  UNCHANGED <<upVars, downPc, workset, nonIncl, downResult, downCalls, cout, simVars,
              isectVars, repeatVars, inserted, choiceVars, cacheVars, functorVars>>

\* operator() is called for a symbol
OperatorCall ==
  /\ downPc = "functor"
  /\ downStack[1].mode = "done"
  /\ \E sym \in {0, 1, 2} :
       downStack' = <<OperatorEntry([downStack[1] EXCEPT !.syms = <<sym>>])>>

\* the pending call of expand returns its answer
ExpandAnswered ==
  /\ downPc = "functor"
  /\ downStack[1].mode \in {"single", "choice"}
  /\ LET f == downStack[1]
         g == Resume(f, expandAnswers[PendingCall(f)])
     IN downStack' = <<IF g.mode = "done" THEN [g EXCEPT !.syms = f.syms] ELSE g>>

\* Reset is called between two calls of operator()
ResetCall ==
  /\ downPc = "functor"
  /\ downStack[1].mode = "done"
  /\ downStack' = <<FunctorReset(downStack[1])>>

FunctorNext ==
  \/ OperatorCall /\ FunctorAlone
  \/ ExpandAnswered /\ FunctorAlone
  \/ ResetCall /\ FunctorAlone

InitFunctor ==
  /\ \E x \in FunctorInputs : smaller = x.smaller /\ bigger = x.bigger
  /\ preorder = Identity
  /\ UpIdle /\ SimIdle /\ IsectIdle
  /\ downPc = "functor"
  /\ downStack = <<NewFrame(2, {5}, <<>>, "done")>>
  /\ workset = EmptyBag /\ nonIncl = EmptyAC2 /\ downResult = NoVerdict
  /\ downCalls = {} /\ cout = <<>>
  /\ popAny = FALSE /\ unordered = FALSE /\ firstReturn = <<>> /\ inserted = {}
  /\ choiceState = <<>> /\ visited = <<>>
  /\ biggerTypeCache = <<>> /\ lteCache = {} /\ evalTransitionsCache = {}
  /\ expandAnswers \in [ExpandCalls -> BOOLEAN]
  /\ CfGenIdle

InitCfGen ==
  /\ AutomataIdle /\ UpIdle /\ DownIdle /\ SimIdle /\ IsectIdle
  /\ popAny = FALSE /\ unordered = FALSE /\ firstReturn = <<>> /\ inserted = {}
  /\ choiceState = <<>> /\ visited = <<>>
  /\ biggerTypeCache = <<>> /\ lteCache = {} /\ evalTransitionsCache = {}
  /\ expandAnswers = <<>>
  /\ CfGenInit

(***************************************************************************)
(* The counters called on their own, as init, split and processRemove call *)
(* them: incr on the one block there is at first; then, in any order,      *)
(* split for a remove list of one state (the new block takes the rows of   *)
(* its inset by copyRow) and decr for a count that is not zero, its zero   *)
(* result putting the state on the remove list.                            *)
(***************************************************************************)
MaxCount == 2

\* an LTS with two states that have a successor under label 0 and one under label 1
CounterLts == [states |-> 3, labels |-> 2, edges |-> {<<0, 0, 1>>, <<1, 0, 2>>, <<0, 1, 0>>}]

CounterInit ==
  /\ lts = CounterLts
  /\ inPartition = <<<<0, 1, 2>>>>
  /\ inRelation = [size |-> 1, bits |-> {<<0, 0>>}]
  /\ outputSize = 3
  /\ simPc = "counting"
  /\ partition = <<[states |-> <<0, 1, 2>>, tmp |-> <<>>,
                    remove |-> [a \in 0..1 |-> <<>>],
                    counter |-> [a \in 0..1 |-> 0],
                    inset |-> [a \in 0..1 |->
                                 Cardinality({s \in 0..2 :
                                    \E e \in CounterLts.edges : e[2] = a /\ e[3] = s})]]>>
  /\ relation = [size |-> 1, bits |-> {<<0, 0>>}]
  /\ index = [s \in 0..2 |-> 0]
  /\ queue = <<>> /\ tmp = <<>> /\ rows = <<>> /\ simResult = NoRelation

\* the members of the algorithm object after a call
CounterInstall(st, pc) ==
  /\ partition' = st.partition
  /\ relation' = st.relation
  /\ index' = st.index
  /\ rows' = st.rows
  /\ queue' = st.queue
  /\ simPc' = IF st.abort THEN "aborted" ELSE pc
  /\ UNCHANGED <<lts, inPartition, inRelation, outputSize, tmp, simResult>>

\* counter().incr(a, q), as at line 769
CounterIncr ==
  /\ simPc = "counting"
  /\ \E a \in LtsLabels : \E qq \in Delta1(a) :
        /\ partition[1].counter[a] # 0 => rows[partition[1].counter[a]].master < MaxCount
        /\ CounterInstall(incr(SimState, 0, a, qq), "counting")

\* split for a remove list of one state of a block that has the rows of the
\* state's labels
CounterSplit ==
  /\ simPc \in {"counting", "sharing"}
  /\ \E qq \in LtsStates :
        /\ \A a \in BwLabels(qq) : partition[index[qq] + 1].counter[a] # 0
        /\ Len(partition[index[qq] + 1].states) > 1
        /\ CounterInstall(split(SimState, <<qq>>).st, "sharing")

\* if (!b1->counter().decr(a, pre2)) enqueueToRemove(b1, a, pre2), lines 600-601
CounterDecr ==
  /\ simPc \in {"counting", "sharing"}
  /\ \E b \in 0..(Len(partition) - 1) : \E a \in LtsLabels : \E qq \in Delta1(a) :
        /\ partition[b + 1].counter[a] # 0
        /\ rows[partition[b + 1].counter[a]].vals[KeyOf(a, qq) + 1] > 0
        /\ CounterInstall(decrPredecessors(SimState, b, a, <<qq>>), "sharing")

CounterAlone ==
  UNCHANGED <<upVars, downVars, isectVars, repeatVars, inserted, choiceVars, cacheVars,
              functorVars>>

CounterNext ==
  \/ CounterIncr /\ CounterAlone
  \/ CounterSplit /\ CounterAlone
  \/ CounterDecr /\ CounterAlone

InitCounter == CounterInit /\ AutomataIdle /\ UpIdle /\ DownIdle /\ IsectIdle /\ RepeatIdle

InitUp == UpInit /\ DownIdle /\ SimIdle /\ IsectIdle /\ RepeatIdle

InitDown == DownInit /\ UpIdle /\ SimIdle /\ IsectIdle /\ RepeatIdle

InitSim == SimInit /\ AutomataIdle /\ UpIdle /\ DownIdle /\ IsectIdle /\ RepeatIdle

InitIsect == IsectInit /\ AutomataIdle /\ UpIdle /\ DownIdle /\ SimIdle /\ RepeatIdle

InitTwice == InitUp \/ InitSim

\* the operations of the antichain
AntichainNext ==
  \/ AcInsert /\ AcAlone
  \/ AcRefine /\ AcAlone
  \/ AcClear /\ AcAlone

InitAntichain ==
  /\ smaller = [trans |-> {}, final |-> {}] /\ bigger = [trans |-> {}, final |-> {}]
  /\ preorder \in AcPreorders
  /\ UpIdle /\ DownIdle /\ SimIdle /\ IsectIdle /\ RepeatIdle

\* build and the enumeration of the choices
ChoiceVectorNext ==
  \/ ChoiceVectorBuild /\ CvAlone
  \/ ChoiceVectorStep /\ CvAlone

InitChoiceVector ==
  /\ AutomataIdle /\ DownIdle /\ SimIdle /\ IsectIdle /\ RepeatIdle
  /\ useIdentity = TRUE /\ firstResult = NoVerdict /\ upPc = "idle" /\ symbol = 0
  /\ next = {} /\ q = 0 /\ result = NoVerdict /\ description = "" /\ descCount = 0
  /\ \E l0 \in CvLists, l1 \in CvLists, l2 \in CvLists :
       processed = [EmptyAC2 EXCEPT ![0] = l0, ![1] = l1, ![2] = l2]
  /\ Q \in {<<3>>, <<5>>}
  /\ \E c \in CvChildren, j \in 0..(MaxArity - 1) :
       /\ j < Len(c)
       /\ todo = <<[trans |-> [symbol |-> 2, children |-> c, state |-> 0], slot |-> j]>>

\* the operations on the caches
CacheNext ==
  \/ CacheLookup /\ CacheAlone
  \/ CacheRelease /\ CacheAlone
  \/ CachedLte /\ CacheAlone
  \/ CachedEvalTransitions /\ CacheAlone

InitCache ==
  /\ smaller = [trans |-> {}, final |-> {}] /\ bigger = CacheBigger
  /\ preorder \in CachePreorders
  /\ UpIdle /\ DownIdle /\ SimIdle /\ IsectIdle
  /\ popAny = FALSE /\ unordered = FALSE /\ firstReturn = <<>> /\ inserted = {}
  /\ choiceState = <<>> /\ visited = <<>>
  /\ biggerTypeCache = [a \in Addresses |-> [set |-> <<>>, refs |-> 0, reused |-> FALSE]]
  /\ lteCache = {} /\ evalTransitionsCache = {}
  /\ expandAnswers = <<>>
  /\ CfGenIdle

InitDownSim == DownSimInit /\ UpIdle /\ SimIdle /\ IsectIdle /\ RepeatIdle

\* runs of the upward checker: with the identity, then with a preorder
SpecUp == InitUp /\ [][UpNext]_vars

\* runs of the downward checker with the identity
SpecDown == InitDown /\ [][DownNext]_vars

\* a call of checkInternal in progress moves on.  Every step of UpNext taken
\* at "start" or "loop" changes upPc, every step taken at "seed" moves to the
\* next symbol or changes upPc, every step taken at "expand" drops the head
\* of todo or changes upPc.
PcAdvance ==
  \/ upPc = "start" /\ upPc' \in {"seed", "done"}
  \/ upPc = "loop" /\ upPc' \in {"expand", "done"}

SeedAdvance ==
  /\ upPc = "seed"
  /\ \/ symbol' = symbol + 1 /\ upPc' = "seed"
     \/ symbol' = symbol /\ upPc' \in {"loop", "done"}

ExpandAdvance ==
  /\ upPc = "expand"
  /\ \/ todo # <<>> /\ todo' = Tail(todo) /\ upPc' \in {"expand", "done"}
     \/ todo = <<>> /\ todo' = todo /\ upPc' = "loop"

\* checkInternal is synchronous and has no suspension point: a call in
\* progress is not stopped for ever; the caller need not call again
SpecUpFair ==
  /\ SpecUp
  /\ WF_upPc(PcAdvance)
  /\ WF_<<upPc, symbol>>(SeedAdvance)
  /\ WF_<<upPc, todo>>(ExpandAdvance)

\* calls of computeSimulation
SpecSim == InitSim /\ [][SimNext]_vars

\* calls of Intersection
SpecIsect == InitIsect /\ [][IsectNext]_vars

\* ChoiceVector on its own
SpecChoiceVector == InitChoiceVector /\ [][ChoiceVectorNext]_vars

\* the caches of an inclusion run
SpecCache == InitCache /\ [][CacheNext]_vars

\* the antichain processed on its own
SpecAntichain == InitAntichain /\ [][AntichainNext]_vars

\* a call of checkInternal or of computeSimulation and its repetition
SpecTwice == InitTwice /\ [][TwiceNext]_vars

\* a call in progress moves to its next position: every step of SimNext
\* taken at one of these positions changes simPc
SimAdvance ==
  /\ simPc \in {"start", "run", "remove"}
  /\ simPc' \in {"run", "remove", "done", "aborted"}

\* the algorithms are synchronous and have no suspension points: a call in
\* progress is not stopped for ever
SpecSimFair == SpecSim /\ WF_simPc(SimAdvance)

(***************************************************************************)
(* Claims about the upward checker.                                        *)
(***************************************************************************)
UpReturned == upPc = "done"

\* C1: with the identity preorder checkInternal returns true if and only if
\* every tree accepted by the smaller automaton is accepted by the bigger one.
C1_UpwardEqualsInclusion ==
  (UpReturned /\ useIdentity) => (result = RefInclusion)

C8_DescriptionMatchesVerdict ==
  /\ ~UpReturned => (result = NoVerdict /\ descCount = 0 /\ description = "")
  /\ UpReturned =>
       /\ descCount = 1
       /\ result \in BOOLEAN
       /\ result = TRUE => description = DescProved
       /\ result = FALSE => description \in {DescSizes, DescLeaves, DescAccepts}

C8_Witness == UpReturned /\ result = FALSE /\ description = DescAccepts

\* the automaton of scenario S2: one final state q0 with the transition a -> q0
IsS2Smaller == smaller = [trans |-> {Leaf(0, 0)}, final |-> {0}]

IsS2Copy == bigger.trans = {Leaf(0, 3)} /\ bigger.final = {3}

LacksA == LeafTrans(bigger, 0) = {}

\* C9 as stated: inclusion of the S2 automaton into itself is true, and into
\* any automaton without an `a` transition it is false with the reason
\* "leaves not covered".
C9_AsStated ==
  (UpReturned /\ IsS2Smaller) =>
     /\ IsS2Copy => result = TRUE
     /\ LacksA => (result = FALSE /\ description = DescLeaves)

\* C9 amended: inclusion of the S2 automaton into itself is true; into an
\* automaton without an `a` transition it is false, with the reason "leaves
\* not covered" when that automaton has some leaf transition and with "leaves
\* set sizes incompatible" when it has none.
C9_Amended ==
  (UpReturned /\ IsS2Smaller) =>
     /\ IsS2Copy => result = TRUE
     /\ LacksA => result = FALSE
     /\ (LacksA /\ Len(biggerLeaves) > 0) => description = DescLeaves
     /\ (LacksA /\ Len(biggerLeaves) = 0) => description = DescSizes

C9_Witness ==
  UpReturned /\ IsS2Smaller /\ LacksA /\ Len(biggerLeaves) = 0 /\ bigger.final # {}

\* the smaller automaton accepts no tree
SmallerLanguageEmpty == \A e \in RefReach({}) : e.p \notin smaller.final

\* C10: an empty smaller automaton is included in every automaton, and an
\* automaton is included in the empty automaton exactly if it accepts no tree.
C10_EmptyAutomata ==
  UpReturned =>
     /\ smaller.trans = {} => result = TRUE
     /\ (bigger.trans = {} /\ bigger.final = {}) => (result = SmallerLanguageEmpty)

(***************************************************************************)
(* Claims about the downward checker.                                      *)
(***************************************************************************)
\* L(p) is included in L(S)
RefInclusionFrom(p, S) == \A e \in RefReach({}) : e.p = p => e.B \cap S # {}

\* C3: on automata without useless states every call of expand by the caller
\* returns true exactly if L(p) is included in L(S), and the verdict of the
\* downward check is the set inclusion of the languages.
C3_DownwardEqualsInclusion ==
  /\ \A c \in downCalls : c.value = RefInclusionFrom(c.p, c.S)
  /\ downPc = "done" => downResult = RefInclusion

(***************************************************************************)
(* Claims about the simulation engine.                                     *)
(***************************************************************************)
\* the block of a state in the partition handed to computeSimulation
InBlockOf(s) == CHOOSE i \in 1..Len(inPartition) : s \in Range(inPartition[i])

\* R0 on the states
InitialOnStates ==
  {x \in LtsStates \X LtsStates :
     <<InBlockOf(x[1]) - 1, InBlockOf(x[2]) - 1>> \in inRelation.bits}

\* the pairs of S whose second state answers every transition of the first
SimulationStep(S) ==
  {x \in S : \A e \in lts.edges :
     e[1] = x[1] => \E f \in lts.edges :
                       f[1] = x[2] /\ f[2] = e[2] /\ <<e[3], f[3]>> \in S}

RECURSIVE GreatestSimulationIn(_)
GreatestSimulationIn(S) ==
  IF SimulationStep(S) = S THEN S ELSE GreatestSimulationIn(SimulationStep(S))

CoarsestSimulation == GreatestSimulationIn(InitialOnStates)

SimReturned == simPc = "done" /\ lts.states > 0

\* C4: the relation computeSimulation returns is the coarsest simulation
\* contained in the initial relation (the naive greatest fixpoint).
C4_CoarsestSimulation ==
  /\ simPc # "aborted"
  /\ SimReturned =>
       simResult.bits = {x \in CoarsestSimulation : x[1] < outputSize /\ x[2] < outputSize}

C4_Witness ==
  /\ SimReturned /\ outputSize = lts.states
  /\ Len(partition) > Len(inPartition)
  /\ simResult.bits # InitialOnStates
  /\ \E x \in simResult.bits : x[1] # x[2]

\* C5: for a reflexive and transitive initial relation the relation
\* computeSimulation returns is reflexive and transitive on the states.
C5_ResultIsPreorder ==
  (simPc = "done" /\ IsTransitive(InitialOnStates)) =>
     /\ \A i \in 0..(simResult.size - 1) : <<i, i>> \in simResult.bits
     /\ IsTransitive(simResult.bits)

C5_Witness ==
  /\ SimReturned /\ IsTransitive(InitialOnStates) /\ outputSize = lts.states
  /\ \E x \in InitialOnStates : x \notin simResult.bits
  /\ \E x \in simResult.bits : x[1] # x[2] /\ <<x[2], x[1]>> \notin simResult.bits

\* C6: the relation computeSimulation returns has the size the caller asked
\* for, whatever the input, an LTS without states included, and relates i to
\* j exactly if the final block relation holds between their blocks.
C6_ResultSize ==
  simPc = "done" =>
     /\ simResult.size = outputSize
     /\ \A i \in 0..(outputSize - 1) : \A j \in 0..(outputSize - 1) :
          <<i, j>> \in simResult.bits <=> <<index[i], index[j]>> \in relation.bits

\* C7: run terminates with an empty worklist: every call of computeSimulation
\* returns with _queue empty, and every processRemove splits a block, clears a
\* bit of the relation or enqueues nothing (the pair it consumed leaves the
\* worklist one shorter).
C7_RunTerminates ==
  /\ (simPc = "start") ~> (simPc = "done" /\ queue = <<>>)
  /\ [][(simPc = "remove" /\ simPc' = "run") =>
          \/ Len(partition') > Len(partition)
          \/ relation'.bits # relation.bits /\ relation'.bits \subseteq relation.bits
          \/ queue' = queue]_vars

\* a run that split blocks twice and left related blocks returned
C7_Witness ==
  /\ simPc = "done" /\ queue = <<>> /\ Len(partition) > Len(inPartition) + 1
  /\ relation.bits # {<<i, i>> : i \in 0..(Len(partition) - 1)}

(***************************************************************************)
(* Boundary behaviour and the refutation sites of the upward checker.      *)
(***************************************************************************)
\* C11: a smaller automaton without final states is included in every bigger
\* automaton: checkInternal returns true, also when a transition of the
\* smaller automaton has no matching transition in the bigger one.  Stated
\* for the runs that pass the size test of line 365, so that the length of
\* the leaf tables plays no part.
C11_NoFinalStates ==
  (UpReturned /\ smaller.final = {} /\ ~LeavesSizesIncompatible) => result = TRUE

(***************************************************************************)
(* The scenario of example2.cc.                                            *)
(***************************************************************************)
\* the height within which the language of the intersection is computed
MaxHeight == 3

\* the tree b(a,a)
TreeBaa == <<2, <<0>>, <<0>>>>

Example2FirstCheck ==
  /\ smaller = Sanitized(autIsect, SmallerStates)
  /\ bigger = Sanitized(autUnion, BiggerStates)

Example2SecondCheck ==
  /\ cout # <<>>
  /\ smaller = Sanitized(autUnion, SmallerStates)
  /\ bigger = Sanitized(autIsect, BiggerStates)

\* C12: in the program of example2 the intersection of aut1 and aut2 accepts
\* exactly the tree b(a,a), the check of the intersection against the
\* union answers true and the check of the union against the intersection
\* answers false.
C12_Example2 ==
  /\ LanguageWithin(autIsect, MaxHeight) = {TreeBaa}
  /\ (downPc = "done" /\ Example2FirstCheck) => downResult = TRUE
  /\ (downPc = "done" /\ Example2SecondCheck) => (cout = <<TRUE>> /\ downResult = FALSE)

\* both checks of example2 have returned
C12_Witness ==
  /\ downPc = "done" /\ Example2SecondCheck /\ cout = <<TRUE>> /\ downResult = FALSE
  /\ Cardinality(StatesOf(autIsect)) = 7 /\ Cardinality(StatesOf(smaller)) = 6

C14_PopOrder ==
  (upPc = "done" /\ firstReturn # <<>> /\ popAny) => firstReturn = <<result>>

\* a call with arbitrary pops returned after the main loop had the choice
C14_Witness ==
  /\ upPc = "done" /\ popAny /\ unordered /\ firstReturn = <<result>>
  /\ \E k \in SmallerStates : Len(processed[k]) > 1

Minted == 0..(isectResult.count - 1)

\* the number of calls of setMtbdd for the state s
SetCount(s) == Cardinality({i \in 1..Len(setCalls) : setCalls[i] = s})

\* C16: while the worklist loop of Intersection runs, and when it is through,
\* the translation map is a bijection between the pairs met so far (the
\* pairs of final states and the pairs of children of matching transitions
\* of the processed pairs) and the states added to the result; every added
\* state is on the workset with its pair and has no transitions yet, or has
\* left it and had its transitions set once; and a state of the result is
\* final exactly when its pair is a pair of final states.
C16_WorklistInvariant ==
  isectPc \in {"loop", "done"} =>
    /\ {translMap[x] : x \in DOMAIN translMap} = Minted
    /\ \A x, y \in DOMAIN translMap : translMap[x] = translMap[y] => x = y
    /\ lhs.final \X rhs.final \subseteq DOMAIN translMap
    /\ \A t \in isectResult.trans : \A i \in 1..Len(t.children) :
         \E x \in DOMAIN translMap :
           /\ translMap[x] = t.children[i]
           /\ \E y \in DOMAIN translMap :
                /\ translMap[y] = t.state
                /\ \E l \in TuplesUnder(lhs, y[1], t.symbol),
                      r \in TuplesUnder(rhs, y[2], t.symbol) :
                     /\ l[i] = x[1] /\ r[i] = x[2]
                     /\ \A j \in 1..Len(l) : translMap[<<l[j], r[j]>>] = t.children[j]
    /\ \A s \in Minted :
         \/ /\ s \in DOMAIN isectWorkset /\ SetCount(s) = 0
            /\ isectWorkset[s] \in DOMAIN translMap /\ translMap[isectWorkset[s]] = s
            /\ \A t \in isectResult.trans : t.state # s
         \/ s \notin DOMAIN isectWorkset /\ SetCount(s) = 1
    /\ DOMAIN isectWorkset \subseteq Minted
    /\ isectPc = "done" => \A s \in Minted : SetCount(s) = 1
    /\ \A x \in DOMAIN translMap :
         translMap[x] \in isectResult.final <=> (x[1] \in lhs.final /\ x[2] \in rhs.final)

\* the intersection of example2 is built: seven states, one of them the child
\* of several transitions, found in the translation map when met again
C16_Witness ==
  /\ isectPc = "done" /\ lhs = aut1 /\ rhs = aut2
  /\ isectResult.count = 7 /\ Len(setCalls) = 7
  /\ Cardinality(isectResult.final) = 4
  /\ \E t1, t2 \in isectResult.trans :
       t1 # t2 /\ t1.children # <<>> /\ t2.children # <<>> /\ t1.children[1] = t2.children[1]

(***************************************************************************)
(* The leaf seeding of checkInternal.                                      *)
(***************************************************************************)
\* the leaf symbol sym has a transition in the smaller automaton and none in
\* the bigger one
LeafMissing(sym) == LeafTrans(smaller, sym) # {} /\ LeafTrans(bigger, sym) = {}

Qsigma == SortedSeq(PostFold(biggerLeaves[symbol + 1], {}, FALSE).data)

\* M holds preorder-maximal states reached by the leaf symbol sym in the
\* bigger automaton: states of sym, no two of them related, every state of
\* sym below one of them
IsMaximalCover(M, sym) ==
  LET reached == {t.state : t \in LeafTrans(bigger, sym)}
  IN /\ M \subseteq reached
     /\ \A x, y \in M : <<x, y>> \in preorder => x = y
     /\ \A x \in reached : \E y \in M : <<x, y>> \in preorder

\* C18: the seeding of a leaf symbol refutes with "leaves not covered"
\* exactly when a transition of the symbol in the smaller automaton leads to
\* a final state and no state of the symbol's macro-state is final in the
\* bigger automaton; otherwise every pair of a target and the macro-state is
\* answered by the preorder shortcut or is below a pair of processed, and
\* the pairs that entered processed are these pairs and are pending in next.
C18_LeafAcceptance ==
  [][(upPc = "seed" /\ symbol < Len(smallerLeaves)) =>
       LET targets == {t.state : t \in LeafTrans(smaller, symbol)}
           uncovered == /\ targets \cap smaller.final # {}
                        /\ Range(Qsigma) \cap bigger.final = {}
       IN /\ IsMaximalCover(Range(Qsigma), symbol)
          /\ (upPc' = "done") <=> uncovered
          /\ uncovered => (result' = FALSE /\ description' = DescLeaves)
          /\ ~uncovered =>
               /\ \A p \in targets :
                    \/ checkIntersection(ind[p], Range(Qsigma))
                    \/ AC2Contains(processed', ind[p], Qsigma, "lte")
               /\ \A k \in SmallerStates : \A i \in 1..Len(processed'[k]) :
                    processed'[k][i] \notin Range(processed[k]) =>
                      /\ processed'[k][i] = Qsigma
                      /\ k \in targets
                      /\ ~checkIntersection(ind[k], Range(Qsigma))
                      /\ [smaller |-> k, bigger |-> Qsigma] \in next']_vars

\* a final target met a macro-state of two states without a final one
C18_Witness ==
  /\ UpReturned /\ result = FALSE /\ description = DescLeaves
  /\ Cardinality(LeafTrans(bigger, symbol)) > 1
  /\ Len(Qsigma) > 1
(***************************************************************************)
(* The inductive step of checkInternal.                                    *)
(***************************************************************************)
\* the choices of a built choice vector: one position into each list
ChoicesOf(lists) ==
  {st \in [1..Len(lists) -> 1..Max({Len(lists[i]) : i \in 1..Len(lists)})] :
     \A i \in 1..Len(lists) : st[i] <= Len(lists[i])}

\* the post macro-state of the choice st for the symbol sym
PostOf(sym, st, lists) ==
  PostFold(TransSeq(BiggerTransitions(sym, st, lists)), {}, FALSE).data

\* C19: the step for a smaller transition with parent p refutes if and only
\* if p is final in the smaller automaton and one of the choices has a post
\* macro-state that is empty or without a final state of the bigger
\* automaton; when p is not final an empty post macro-state does not refute.
C19_InductiveRefutation ==
  [][(/\ upPc = "expand" /\ todo # <<>>
      /\ ChoiceBuild(Head(todo).trans.children, Head(todo).slot, processed, Q)) =>
       LET trans == Head(todo).trans
           lists == ChoiceLists(trans.children, Head(todo).slot, processed, Q)
       IN (upPc' = "done") <=>
            /\ trans.state \in smaller.final
            /\ \E st \in ChoicesOf(lists) :
                 PostOf(trans.symbol, st, lists) \cap bigger.final = {}]_vars
(***************************************************************************)
(* Termination of checkInternal.                                           *)
(***************************************************************************)
\* C20: every call of checkInternal returns, with a refutation or with true
\* once next is empty; and a pair that enters next is not below a pair that
\* processed held when the step began.
C20_Terminates ==
  /\ (upPc = "start") ~> (upPc = "done" /\ (result = TRUE => next = {}))
  /\ [][\A e \in next' \ next :
          ~AC2Contains(processed, ind[e.smaller], e.bigger, "lte")]_vars

\* a call returned true after pairs of the main loop had entered next
C20_Witness ==
  /\ upPc = "done" /\ result = TRUE /\ next = {}
  /\ \E t \in smaller.trans :
       /\ t.children # <<>> /\ processed[t.state] # <<>>
       /\ \A u \in smaller.trans : u.children = <<>> => u.state # t.state

(***************************************************************************)
(* next and processed.                                                     *)
(***************************************************************************)
\* the (key, macro-state) pairs an Antichain2C holds
StoredPairs(ac) ==
  UNION {{[smaller |-> k, bigger |-> ac[k][i]] : i \in 1..Len(ac[k])} : k \in SmallerStates}

\* the pair the leaf loop builds for the first transition of the first symbol
FirstSeeded ==
  [smaller |-> smallerLeaves[1][1].state,
   bigger |-> SortedSeq(PostFold(biggerLeaves[1], {}, FALSE).data)]

\* C21: at every iteration boundary of the main loop each pair of next is
\* stored in processed under its key; the pair a pop takes is stored in
\* processed; and a step of the leaf loop or of the promotion removes from
\* next exactly the pending pairs that the step evicted from processed.
C21_NextWithinProcessed ==
  /\ [](upPc = "loop" => next \subseteq StoredPairs(processed))
  /\ [][/\ (upPc = "loop" /\ upPc' = "expand") =>
             [smaller |-> q', bigger |-> Q'] \in StoredPairs(processed)
        /\ (upPc \in {"seed", "expand"} /\ upPc' # "start") =>
             next \ next' = next \cap (StoredPairs(processed) \ StoredPairs(processed'))]_vars

\* the leaf loop is over and the pair it seeded first, pending until then,
\* has been evicted from processed and from next by a later leaf
C21_Witness ==
  /\ upPc = "seed" /\ symbol = Len(smallerLeaves) /\ symbol >= 2
  /\ smallerLeaves[1] # <<>>
  /\ ~checkIntersection(ind[FirstSeeded.smaller], Range(FirstSeeded.bigger))
  /\ FirstSeeded \notin StoredPairs(processed)
  /\ FirstSeeded \notin next
  /\ next # {}

(***************************************************************************)
(* processed is an antichain.                                              *)
(***************************************************************************)
\* the pair y dominates the pair x: x.smaller R y.smaller and y.bigger is
\* below x.bigger in the lifted preorder
Dominated(x, y) ==
  /\ <<x.smaller, y.smaller>> \in preorder
  /\ \A s \in Range(y.bigger) : \E t \in Range(x.bigger) : <<s, t>> \in preorder

ChoiceProduct ==
  LET children == Head(todo).trans.children
      j == Head(todo).slot
  IN {f \in [1..Len(children) -> CvValues \cup {Q}] :
        \A i \in 1..Len(children) :
           IF i = j + 1 THEN f[i] = Q ELSE f[i] \in Range(processed[children[i]])}

\* C23: build fails exactly when the lookup of a child other than the fixed
\* slot is absent; otherwise every run of the body of the do/while has the
\* popped macro-state at the fixed slot and a choice of the product that no
\* earlier run had, and when next() returns false every choice of the
\* product has been visited and all positions are back at the first element.
C23_ChoiceVector ==
  /\ upPc = "skipped" <=>
       /\ upPc \in {"skipped", "choice", "exhausted"}
       /\ \E i \in 1..Len(Head(todo).trans.children) :
            i # Head(todo).slot + 1 /\ processed[Head(todo).trans.children[i]] = <<>>
  /\ upPc \in {"choice", "exhausted"} =>
       /\ \A n \in 1..Len(visited) :
            /\ visited[n] \in ChoiceProduct
            /\ visited[n][Head(todo).slot + 1] = Q
            /\ \A m \in 1..Len(visited) : m # n => visited[m] # visited[n]
  /\ upPc = "exhausted" =>
       /\ Range(visited) = ChoiceProduct
       /\ Len(visited) = Cardinality(ChoiceProduct)
       /\ \A i \in 1..Len(choiceState) : choiceState[i] = 1

\* the enumeration of a transition with three children ended after more
\* than two choices, taken from two lists of two macro-states
C23_Witness ==
  /\ upPc = "exhausted"
  /\ Len(Head(todo).trans.children) = 3
  /\ Len(visited) = 4

(***************************************************************************)
(* The post macro-state of a choice.                                       *)
(***************************************************************************)
\* a big_set of at most MaxFold transitions is folded in every order
MaxFold == 4

RECURSIVE AllOrders(_)
AllOrders(T) ==
  IF T = {} THEN {<<>>}
  ELSE UNION {{<<t>> \o p : p \in AllOrders(T \ {t})} : t \in T}

\* the orders in which the list biggerTransitions may hold big_set
FoldOrders(T) ==
  IF Cardinality(T) <= MaxFold THEN AllOrders(T)
  ELSE {TransSeq(T), [i \in 1..Cardinality(T) |-> TransSeq(T)[Cardinality(T) + 1 - i]]}

\* the transitions of the bigger automaton whose child lies, at every slot,
\* in the macro-state the choice st has at that slot
BigSet(sym, st, lists) ==
  {t \in bigger.trans :
     /\ t.symbol = sym /\ Len(t.children) = Len(lists)
     /\ \A i \in 1..Len(lists) : t.children[i] \in Range(lists[i][st[i]])}

\* C24: for each choice of a smaller transition, big_set is the intersection
\* of evalTransitions over the slots, and in whatever order it is folded the
\* post macro-state is strictly ascending, holds parent states of big_set
\* only, holds no two distinct states related by the preorder, and holds for
\* every parent state of big_set a state that dominates it.
C24_PostMacroState ==
  (/\ upPc = "expand" /\ todo # <<>>
   /\ ChoiceBuild(Head(todo).trans.children, Head(todo).slot, processed, Q)) =>
    LET trans == Head(todo).trans
        lists == ChoiceLists(trans.children, Head(todo).slot, processed, Q)
    IN \A st \in ChoicesOf(lists) :
         LET big == BiggerTransitions(trans.symbol, st, lists)
             parents == {t.state : t \in big}
         IN /\ big = BigSet(trans.symbol, st, lists)
            /\ \A order \in FoldOrders(big) :
                 LET folded == SortedSeq(PostFold(order, {}, FALSE).data)
                 IN /\ \A i \in 1..Len(folded) : \A j \in 1..Len(folded) :
                         i < j => folded[i] < folded[j]
                    /\ Range(folded) \subseteq parents
                    /\ \A s \in Range(folded) : \A t \in Range(folded) :
                         s # t => <<s, t>> \notin preorder
                    /\ \A s \in parents : \E t \in Range(folded) : <<s, t>> \in preorder

\* a choice whose big_set has two parent states of which one is below the
\* other: the post macro-state is smaller than the set of parent states
C24_Witness ==
  /\ upPc = "expand" /\ todo # <<>> /\ ~useIdentity
  /\ ChoiceBuild(Head(todo).trans.children, Head(todo).slot, processed, Q)
  /\ LET trans == Head(todo).trans
         lists == ChoiceLists(trans.children, Head(todo).slot, processed, Q)
     IN \E st \in ChoicesOf(lists) :
          LET big == BiggerTransitions(trans.symbol, st, lists)
          IN /\ \E t \in big : \E u \in big :
                  t.state # u.state /\ <<t.state, u.state>> \in preorder
             /\ Cardinality(PostOf(trans.symbol, st, lists)) <
                  Cardinality({t.state : t \in big})

(***************************************************************************)
(* Coherence of the memoizers.                                             *)
(***************************************************************************)
\* C25: every memoized answer of lte and of evalTransitions is keyed on
\* macro-states that are alive and equals what the non-cached function
\* returns for the macro-states at those addresses; and in the step in
\* which a macro-state is evicted, every lteCache entry with its address as
\* first or second argument and every evalTransitionsCache entry keyed on
\* it is dropped.
C25_CacheCoherence ==
  /\ [](/\ \A e \in lteCache :
             /\ Alive(e[1]) /\ Alive(e[2])
             /\ e[3] = noncachedLte(biggerTypeCache[e[1]].set, biggerTypeCache[e[2]].set)
        /\ \A e \in evalTransitionsCache :
             /\ Alive(e[3])
             /\ e[4] = evalTransitions(e[1], e[2], biggerTypeCache[e[3]].set))
  /\ [][\A a \in DOMAIN biggerTypeCache :
          (Alive(a) /\ biggerTypeCache'[a].refs = 0) =>
             /\ \A e \in lteCache' : e[1] # a /\ e[2] # a
             /\ \A e \in evalTransitionsCache' : e[3] # a]_vars

\* an address holds a macro-state after an evicted one, both memoizers hold
\* an answer keyed on it, and for another macro-state at this address the
\* answers would be different ones
C25_Witness ==
  /\ biggerTypeCache # <<>>
  /\ \E e \in lteCache : \E f \in evalTransitionsCache :
       /\ f[3] = e[2]
       /\ biggerTypeCache[e[2]].reused
       /\ \E v \in CacheValues :
            /\ v # biggerTypeCache[e[2]].set
            /\ noncachedLte(biggerTypeCache[e[1]].set, v) # e[3]
            /\ evalTransitions(f[1], f[2], v) # f[4]

(***************************************************************************)
(* The filters at the head of expand against their statement.              *)
(***************************************************************************)
\* every state of X is below some state of Y in the preorder
StatesBelow(X, Y) == \A x \in X : \E y \in Y : <<x, y>> \in preorder

\* a call of expand is about to be made
AtExpandCall == downPc = "run" /\ DownTop.mode # "done"

\* C26: at every call expand(p, S) the workset filter answers (true, without
\* expanding) exactly when some pair (p', S') of the workset has p below p'
\* and every state of S' below some state of S.
C26_WorksetFilter ==
  AtExpandCall =>
    LET elem == PendingCall(DownTop)
    IN isInWorkset(elem) <=>
         \E pair \in BagToSet(workset) :
            /\ <<elem.p, pair.p>> \in preorder
            /\ StatesBelow(pair.S, elem.S)

\* C27: at every call expand(p, S) that neither the workset nor the
\* non-inclusion cache answers, expand returns true without expanding when
\* the children cache holds under a key p' of preorderBigger_[p] a set S'
\* with every state of S' below some state of S.
C27_ChildrenFilter ==
  AtExpandCall =>
    LET elem == PendingCall(DownTop)
        childrenCache == DownTop.cache
    IN (/\ ~isInWorkset(elem)
        /\ ~isNoninclusionImplied(elem)
        /\ \E k \in AC2Keys(preorderBigger[elem.p]) :
             \E i \in 1..Len(childrenCache[k]) : StatesBelow(childrenCache[k][i], elem.S))
       => /\ Filtered(childrenCache, elem).returns
          /\ Filtered(childrenCache, elem).value

\* C28: at every call expand(p, S) for which the non-inclusion cache holds
\* under a key p' of preorderSmaller_[p] a set S' with every state of S
\* below some state of S', expand returns false without expanding, and so
\* never answers true.
C28_NoninclusionFilter ==
  AtExpandCall =>
    LET elem == PendingCall(DownTop)
    IN (\E k \in AC2Keys(preorderSmaller[elem.p]) :
          \E i \in 1..Len(nonIncl[k]) : StatesBelow(elem.S, nonIncl[k][i]))
       => /\ Filtered(DownTop.cache, elem).returns
          /\ ~Filtered(DownTop.cache, elem).value

\* runs of the downward checker with the identity and with the largest
\* downward simulation
SpecDownSim == InitDownSim /\ [][DownNext]_vars

\* calls of operator() and Reset on one functor
SpecFunctor == InitFunctor /\ [][FunctorNext]_vars

(***************************************************************************)
(* Claims about operator().                                                *)
(***************************************************************************)
\* the functor called on its own
TheFunctor == downStack[1]

\* C29: a call of operator() for a symbol without a tuple of the smaller
\* side leaves the verdict as it is; for a nullary symbol the verdict after
\* the call is the verdict before it and the existence of a transition of
\* the bigger automaton with that symbol from a state of S; for a symbol of
\* arity at least 1 without a tuple of the bigger side the verdict is false;
\* and a false verdict is false after every step but Reset.
C29_OperatorVerdict ==
  [][downPc = "functor" =>
       LET f == TheFunctor
           g == downStack'[1]
       IN /\ (f.mode = "done" /\ g.syms # <<>>) =>
               LET sym == Head(g.syms)
                   lhsEmpty == ~\E t \in smaller.trans : t.state = f.p /\ t.symbol = sym
                   rhsEmpty == ~\E t \in bigger.trans : t.state \in f.S /\ t.symbol = sym
               IN /\ lhsEmpty => (g.holds = f.holds /\ g.mode = "done")
                  /\ (~lhsEmpty /\ Arity(sym) = 0) =>
                       (g.holds = (f.holds /\ ~rhsEmpty) /\ g.mode = "done")
                  /\ (~lhsEmpty /\ Arity(sym) >= 1 /\ rhsEmpty) =>
                       (~g.holds /\ g.mode = "done")
          /\ (~f.holds /\ ~(f.mode = "done" /\ g.syms = <<>>)) => ~g.holds]_vars

\* a nullary symbol with a transition on both sides has been processed by a
\* functor whose verdict an earlier call had made false
C29_Witness ==
  /\ downPc = "functor"
  /\ TheFunctor.mode = "done" /\ ~TheFunctor.holds
  /\ TheFunctor.syms # <<>>
  /\ Arity(Head(TheFunctor.syms)) = 0
  /\ LhsTuples(TheFunctor.p, Head(TheFunctor.syms)) # <<>>
  /\ RhsTuples(TheFunctor.S, Head(TheFunctor.syms)) # <<>>

\* some single tuple of rhsVector answers lhsTuple in every slot
SingleCovers(lhsTuple, rhsVector) ==
  \E k \in 1..Len(rhsVector) : \A i \in 1..Len(lhsTuple) :
     expandAnswers[[p |-> lhsTuple[i], S |-> {rhsVector[k][i]}]]

\* every choice function has a slot with a non-empty set that answers lhsTuple
ChoiceCovers(lhsTuple, rhsVector) ==
  \A cf \in [1..Len(rhsVector) -> 0..(Len(lhsTuple) - 1)] :
     \E slot \in 0..(Len(lhsTuple) - 1) :
        LET assigned == {rhsVector[k][slot + 1] : k \in {i \in 1..Len(rhsVector) : cf[i] = slot}}
        IN /\ assigned # {}
           /\ expandAnswers[[p |-> lhsTuple[slot + 1], S |-> assigned]]

TupleAccepted(lhsTuple, rhsVector) == SingleCovers(lhsTuple, rhsVector) \/ ChoiceCovers(lhsTuple, rhsVector)

\* C30: a call of operator() for a symbol of arity at least 1 goes on to the
\* next tuple of the smaller side only from a tuple that a single bigger
\* tuple covers slot by slot or that every choice function covers in a slot
\* with a non-empty set; it ends with the verdict true exactly if the
\* verdict was true and every tuple is covered so; and it fails at the first
\* tuple not covered, at a choice function without such a slot.
C30_TupleAcceptance ==
  [][(downPc = "functor" /\ TheFunctor.mode \in {"single", "choice"}) =>
       LET f == TheFunctor
           g == downStack'[1]
           lhsSet == LhsTuples(f.p, Head(f.syms))
           rhsVector == RhsTuples(f.S, Head(f.syms))
           covered(cf) ==
             \E slot \in 0..(Arity(Head(f.syms)) - 1) :
                /\ RhsSetForTuplePos(cf, rhsVector, slot) # {}
                /\ expandAnswers[[p |-> lhsSet[f.li][slot + 1],
                                  S |-> RhsSetForTuplePos(cf, rhsVector, slot)]]
       IN /\ g.mode # "done" => /\ g.holds = f.holds
                                /\ g.li > f.li => TupleAccepted(lhsSet[f.li], rhsVector)
          /\ g.mode = "done" =>
               /\ g.holds = (f.holds /\ \A i \in 1..Len(lhsSet) : TupleAccepted(lhsSet[i], rhsVector))
               /\ (f.holds /\ ~g.holds) =>
                    /\ \A i \in 1..(f.li - 1) : TupleAccepted(lhsSet[i], rhsVector)
                    /\ ~TupleAccepted(lhsSet[f.li], rhsVector)
                    /\ f.mode = "choice" /\ ~covered(f.cf)]_vars

\* a call for a binary symbol has ended with the verdict true although no
\* single tuple of the bigger side covers some tuple of the smaller side
C30_Witness ==
  /\ downPc = "functor"
  /\ TheFunctor.mode = "done" /\ TheFunctor.holds
  /\ TheFunctor.syms = <<2>>
  /\ RhsTuples(TheFunctor.S, 2) # <<>>
  /\ \E i \in 1..Len(LhsTuples(TheFunctor.p, 2)) :
       ~SingleCovers(LhsTuples(TheFunctor.p, 2)[i], RhsTuples(TheFunctor.S, 2))

(***************************************************************************)
(* Claims about the caches and the workset of expand.                      *)
(***************************************************************************)
\* how often the antichain holds the pair
Occurrences(ac, elem) ==
  Cardinality({i \in 1..Len(ac[elem.p]) : ac[elem.p][i] = elem.S})

\* a step in which the running call of expand returns from its inner functor
ExpandReturns == downPc = "run" /\ Len(downStack') < Len(downStack)

\* a step in which a call of expand is answered by a filter
ExpandAnswers == downPc = "run" /\ downPc' = "run" /\ Len(downStack') = Len(downStack)

FramePair(i) == [p |-> downStack[i].p, S |-> downStack[i].S]

\* the calls of expand that are running, the outermost first
RunningCalls == 2..Len(downStack)

\* C32: the workset is the multiset of the pairs of the running calls of
\* expand: each call has put its pair in once and every returned call has
\* taken one copy out, whatever it returned; so a call that is about to
\* return finds its pair to erase, the workset after a call is the workset
\* before it, and it is empty once the caller's calls are through.
C32_WorksetDiscipline ==
  /\ \A pair \in BagToSet(workset) : \E i \in RunningCalls : FramePair(i) = pair
  /\ \A i \in RunningCalls :
        CopiesIn(FramePair(i), workset)
          = Cardinality({j \in RunningCalls : FramePair(j) = FramePair(i)})
  /\ downPc = "done" => workset = EmptyBag

\* a call that failed has returned into a call that is still running, two
\* levels below the caller
C32_Witness ==
  /\ downPc = "run"
  /\ Len(downStack) >= 3
  /\ nonIncl # EmptyAC2
  /\ \E i \in RunningCalls : nonIncl[FramePair(i).p] = <<>>
  /\ BagCardinality(workset) = Len(downStack) - 1

\* C33: the functor made by expand starts with an empty children cache, and
\* the children cache of a functor only ever gains the pair of a call of
\* expand made by that functor itself, when that call returns: what is proved
\* deeper in the recursion reaches neither an enclosing functor nor a later
\* expansion.
C33_ChildrenCacheScope ==
  [][downPc = "run" /\ downPc' = "run" =>
       /\ Len(downStack') > Len(downStack) => downStack'[Len(downStack')].cache = EmptyAC2
       /\ \A i \in 1..Len(downStack) :
            i <= Len(downStack') =>
              LET gained == StoredPairs(downStack'[i].cache) \ StoredPairs(downStack[i].cache)
              IN IF i = Len(downStack') /\ Len(downStack') < Len(downStack)
                 THEN gained \subseteq {[smaller |-> DownTop.p, bigger |-> DownTop.S]}
                 ELSE gained = {}]_vars

\* an expansion is running for a functor that has already proved a pair, and
\* its own functor has proved nothing yet
C33_Witness ==
  /\ downPc = "run"
  /\ \E i \in 1..(Len(downStack) - 1) :
        /\ downStack[i].cache # EmptyAC2
        /\ downStack[i + 1].cache = EmptyAC2

(***************************************************************************)
(* Claims about the choice function generator.                             *)
(***************************************************************************)
\* the generator in the loop of operator()
SpecCfGen == InitCfGen /\ [][CfGenNext]_vars

RECURSIVE CfPower(_, _)
\* range to the power of length: the number of choice functions
CfPower(range, length) == IF length = 0 THEN 1 ELSE range * CfPower(range, length - 1)

RECURSIVE CfNumber(_, _)
\* the place of a choice function in the order with position 0 varying fastest
CfNumber(cf, range) ==
  IF cf = <<>> THEN 0 ELSE Head(cf) + range * CfNumber(Tail(cf), range)

\* C34: the loop around GetNext yields the choice functions of the given
\* length and range in the order with position 0 varying fastest, each one
\* once; IsLast() is true exactly when all of them have been yielded, at once
\* for the range 0; and the loop ends with as many rounds as there are choice
\* functions.
C34_EachVectorOnce ==
  cfGen.pc # "idle" =>
    LET count == IF cfGen.range = 0 THEN 0 ELSE CfPower(cfGen.range, Len(cfGen.cf))
    IN /\ \A j \in 1..Len(cfYield) : CfNumber(cfYield[j], cfGen.range) = j - 1
       /\ CfIsLast(cfGen.last) <=> (Len(cfYield) = count)
       /\ cfGen.pc = "done" => Len(cfYield) = count

(***************************************************************************)
(* Claims about the data of the simulation engine.                         *)
(***************************************************************************)
\* the algorithm object exists and is between two steps of run
BetweenSteps == simPc \in {"run", "remove", "done"} /\ lts.states # 0

BlockIds == 0..(Len(partition) - 1)

\* the value block b's counter holds for (a, qq): 0 when the row is absent
CounterValue(b, a, qq) ==
  LET row == partition[b + 1].counter[a]
  IN IF row = 0 THEN 0 ELSE rows[row].vals[KeyOf(a, qq) + 1]

\* the a-successors of qq in blocks that block b is related to
RelatedSuccessors(b, a, qq) ==
  {e[3] : e \in {x \in lts.edges :
                   x[1] = qq /\ x[2] = a /\ <<b, index[x[3]]>> \in relation.bits}}

\* the counters of every block agree with the relation
CountersExact ==
  \A b \in BlockIds : \A a \in LtsLabels : \A qq \in Delta1(a) :
     partition[b + 1].inset[a] > 0 =>
       CounterValue(b, a, qq) = Cardinality(RelatedSuccessors(b, a, qq))

\* the block the states of block b were in before the step (b itself unless
\* the step has made b)
OriginOf(b) == index[CHOOSE s \in Range(partition'[b + 1].states) : TRUE]

\* after the step, a count of zero is either on the block's remove list or
\* was zero in the block's origin before the step
ZeroCountsQueued ==
  \A b \in 0..(Len(partition') - 1) : \A a \in LtsLabels : \A qq \in Delta1(a) :
     (/\ partition'[b + 1].inset[a] > 0
      /\ LET row == partition'[b + 1].counter[a]
         IN row = 0 \/ rows'[row].vals[KeyOf(a, qq) + 1] = 0)
     => \/ qq \in Range(partition'[b + 1].remove[a])
        \/ /\ simPc = "remove"
           /\ CounterValue(OriginOf(b), a, qq) = 0

\* C35: after init and between the calls of processRemove, the counter of a
\* block B for a label a of its inset and a state q with an a-successor is
\* the number of a-successors of q in blocks C with R(B, C); and a count that
\* a step brings to zero (or that init finds zero) has q put on the remove
\* list of B for a by that step.
C35_CounterInvariant ==
  /\ [](BetweenSteps => CountersExact)
  /\ [][simPc' = "run" => ZeroCountsQueued]_vars

\* a processRemove has split a block (the child shares a row), and some
\* block has a count of zero with its state on the remove list
C35_Witness ==
  /\ simPc = "run"
  /\ \E i \in 1..Len(rows) : rows[i].ref > 1
  /\ \E b \in BlockIds : \E a \in LtsLabels : \E qq \in Delta1(a) :
        /\ partition[b + 1].inset[a] > 0
        /\ CounterValue(b, a, qq) = 0
        /\ qq \in Range(partition[b + 1].remove[a])

\* the relation of the algorithm object is reflexive on the blocks
Reflexive(st) == \A b \in 0..(Len(st.partition) - 1) : <<b, b>> \in st.relation.bits

\* init up to its three stages: the relation assigned, after fastSplit, after
\* the pre-pruning
InitStages ==
  LET made == makeBlocks(OLRTAlgorithm, 2)
      related == [made EXCEPT !.relation = inRelation]
      halved == fastSplitLabels(related, 0)
  IN <<related, halved, prePrune(halved)>>

\* the blocks processRemove builds before its loops, for the pair taken off
\* the worklist
RemoveStage ==
  LET remove == partition[tmp[1] + 1].remove[tmp[2]]
      taken == [SimState EXCEPT !.partition[tmp[1] + 1].remove[tmp[2]] = <<>>]
  IN [preList |-> buildPre(taken, <<>>, taken.partition[tmp[1] + 1].states, tmp[2]),
      removeList |-> split(taken, remove).removeList,
      remove |-> remove]

\* C36: no assertion of init and processRemove fails; the block relation is
\* reflexive after each stage of init and between the steps of run; no block
\* of preList is in removeList; and between blocks that exist before a step
\* the step adds no pair to the relation.
C36_RelationReflexiveShrinking ==
  /\ [](simPc # "aborted")
  /\ []((simPc = "start" /\ lts.states # 0) =>
          \A i \in 1..3 : isConsistent(InitStages[i]) /\ ~InitStages[i].abort)
  /\ [](BetweenSteps => isConsistent(SimState))
  /\ [](simPc = "remove" =>
          Range(RemoveStage.preList) \cap Range(RemoveStage.removeList) = {})
  /\ [][/\ (simPc = "start" /\ simPc' = "run") =>
             \A x \in relation'.bits :
                (x[1] < inRelation.size /\ x[2] < inRelation.size) => x \in inRelation.bits
        /\ (simPc = "remove" /\ simPc' = "run") =>
             \A x \in relation'.bits :
                (x[1] < relation.size /\ x[2] < relation.size) => x \in relation.bits]_vars

\* a processRemove that found a block both before and among the removed
\* would be the next step: it has split a block and a pair of the relation
\* the caller gave is gone
C36_Witness ==
  /\ simPc = "run"
  /\ \E i \in 1..Len(rows) : rows[i].ref > 1
  /\ relation.size > inRelation.size
  /\ \E x \in inRelation.bits : x \notin relation.bits
  /\ Reflexive(SimState)

\* the blocks of the algorithm state are a partition of the states of the LTS
\* kept by rings and block_ pointers, and the relation has their number
IsTruePartition(st) ==
  /\ \A s \in LtsStates :
        /\ st.index[s] \in 0..(Len(st.partition) - 1)
        /\ \A b \in 0..(Len(st.partition) - 1) :
              Cardinality({i \in 1..Len(st.partition[b + 1].states) :
                             st.partition[b + 1].states[i] = s})
                = IF st.index[s] = b THEN 1 ELSE 0
  /\ \A b \in 0..(Len(st.partition) - 1) :
        /\ st.partition[b + 1].states # <<>>
        /\ st.partition[b + 1].tmp = <<>>
        /\ Range(st.partition[b + 1].states) \subseteq LtsStates
  /\ st.relation.size = Len(st.partition)

\* the states that st keeps apart are kept apart by later
Finer(st, later) ==
  \A s \in LtsStates : \A t \in LtsStates :
     st.index[s] # st.index[t] => later.index[s] # later.index[t]

\* init after the fastSplit of the labels below a
FastSplitStage(a) ==
  LET made == makeBlocks(OLRTAlgorithm, 2)
  IN IF a = 0 THEN [made EXCEPT !.relation = inRelation]
     ELSE fastSplit(
            IF a = 1 THEN [made EXCEPT !.relation = inRelation]
            ELSE fastSplit([made EXCEPT !.relation = inRelation], SortedSeq(Delta1(0))),
            SortedSeq(Delta1(a - 1)))

\* processRemove after its call of split, for the pair taken off the worklist
SplitStage ==
  split([SimState EXCEPT !.partition[tmp[1] + 1].remove[tmp[2]] = <<>>],
        partition[tmp[1] + 1].remove[tmp[2]]).st

\* C37: after init, after each fastSplit of init, after the split of a
\* processRemove and after the processRemove, every state is once on the
\* ring of one block, the block its block_ points to; no ring is empty, every
\* tmp ring is; the blocks are as many as the relation is large; and states
\* in different blocks stay in different blocks.
C37_PartitionInvariant ==
  /\ []((simPc = "start" /\ lts.states # 0) =>
          /\ \A a \in 0..lts.labels : IsTruePartition(FastSplitStage(a))
          /\ \A a \in 1..lts.labels : Finer(FastSplitStage(a - 1), FastSplitStage(a))
          /\ Finer(FastSplitStage(lts.labels), init(OLRTAlgorithm)))
  /\ [](BetweenSteps => IsTruePartition(SimState))
  /\ [](simPc = "remove" => IsTruePartition(SplitStage) /\ Finer(SimState, SplitStage))
  /\ [][(simPc = "remove" /\ simPc' = "run") =>
          \A s \in LtsStates : \A t \in LtsStates :
             index[s] # index[t] => index'[s] # index'[t]]_vars

\* a processRemove has split a block whose states the caller's partition and
\* init had left together
C37_Witness ==
  /\ simPc = "run"
  /\ \E i \in 1..Len(rows) : rows[i].ref > 1
  /\ Len(partition) > Len(inPartition)
  /\ Len(partition) = lts.states
  /\ IsTruePartition(SimState)

(***************************************************************************)
(* Claims about the counter rows.                                          *)
(***************************************************************************)
\* calls of incr, split and decr on the counters of the blocks
SpecCounter == InitCounter /\ [][CounterNext]_vars

RECURSIVE SumUpTo(_, _)
\* the sum of the first n slots of a row
SumUpTo(vals, n) == IF n = 0 THEN 0 ELSE vals[n] + SumUpTo(vals, n - 1)

SumOf(vals) == SumUpTo(vals, Len(vals))

\* the (block, label) pairs whose counter points to row i
RowHolders(i) ==
  {x \in BlockIds \X LtsLabels : partition[x[1] + 1].counter[x[2]] = i}

\* C38: the refCount of every row is the number of counters that point to
\* it, so a row is reclaimed (refCount 0) exactly when no counter points to
\* it any more and every pointer of a counter is to a live row; the master
\* of a live row is the sum of its slots and is not zero; and no assertion
\* of incr, decr or copyRow fails, incr finding no row or a refCount of 1.
C38_RowHeader ==
  /\ simPc # "aborted"
  /\ \A i \in 1..Len(rows) :
        /\ rows[i].ref = Cardinality(RowHolders(i))
        /\ rows[i].ref >= 1 =>
             /\ rows[i].master = SumOf(rows[i].vals)
             /\ rows[i].master >= 1
  /\ \A b \in BlockIds : \A a \in LtsLabels :
        partition[b + 1].counter[a] \in 0..Len(rows)

\* a row has been reclaimed, another is shared by all three counters
C38_Witness ==
  /\ simPc = "sharing"
  /\ \E i \in 1..Len(rows) : rows[i].ref = 0
  /\ \E i \in 1..Len(rows) : rows[i].ref = 3 /\ rows[i].master = MaxCount

\* the (block, label, state) triples a counter has a slot for
Slots == {x \in BlockIds \X LtsLabels \X LtsStates : x[3] \in Delta1(x[2])}

\* the value block b's counter holds for (a, qq) after the step
CounterValueAfter(b, a, qq) ==
  LET row == partition'[b + 1].counter[a]
  IN IF row = 0 THEN 0 ELSE rows'[row].vals[KeyOf(a, qq) + 1]

\* a step of split: the new block is the last one, its parent the block its
\* states were in; the pointers of the new block's inset are the parent's,
\* each counted in the row, and no count read through a block changes
SplitShares ==
  Len(partition') > Len(partition) =>
    LET nb == Len(partition)
        parent == index[Head(partition'[nb + 1].states)]
    IN /\ Len(partition') = nb + 1
       /\ rows' = [i \in 1..Len(rows) |->
                     [rows[i] EXCEPT !.ref =
                        @ + Cardinality({a \in LtsLabels :
                                           /\ partition'[nb + 1].inset[a] > 0
                                           /\ partition[parent + 1].counter[a] = i})]]
       /\ \A a \in LtsLabels :
             partition'[nb + 1].counter[a] =
               IF partition'[nb + 1].inset[a] > 0
               THEN partition[parent + 1].counter[a] ELSE 0
       /\ \A x \in Slots :
             CounterValueAfter(x[1], x[2], x[3]) = CounterValue(x[1], x[2], x[3])
       /\ \A a \in LtsLabels : \A qq \in Delta1(a) :
             partition'[nb + 1].inset[a] > 0 =>
               CounterValueAfter(nb, a, qq) = CounterValue(parent, a, qq)

\* a step of decr through block x[1] for label x[2] and state x[3]
DecrThrough(x) ==
  LET b == x[1]
      a == x[2]
      qq == x[3]
      row == partition[b + 1].counter[a]
      k == KeyOf(a, qq) + 1
  IN /\ row # 0 /\ rows[row].vals[k] > 0
     /\ CounterValueAfter(b, a, qq) = CounterValue(b, a, qq) - 1
     /\ \A y \in Slots \ {x} :
           CounterValueAfter(y[1], y[2], y[3]) = CounterValue(y[1], y[2], y[3])
     /\ \A i \in 1..Len(rows) : i # row => rows'[i] = rows[i]
     /\ rows[row].ref > 1 =>
          /\ rows'[row] = [rows[row] EXCEPT !.ref = @ - 1]
          /\ IF rows[row].master = 1
             THEN partition'[b + 1].counter[a] = 0 /\ Len(rows') = Len(rows)
             ELSE /\ partition'[b + 1].counter[a] = Len(rows) + 1
                  /\ rows' = Append([rows EXCEPT ![row].ref = @ - 1],
                                    [ref |-> 1, master |-> rows[row].master - 1,
                                     vals |-> [rows[row].vals EXCEPT ![k] = @ - 1]])
     /\ rows[row].ref = 1 =>
          /\ Len(rows') = Len(rows)
          /\ partition'[b + 1].counter[a] = IF rows[row].master = 1 THEN 0 ELSE row
     /\ \A y \in BlockIds \X LtsLabels :
           <<y[1], y[2]>> # <<b, a>> =>
              partition'[y[1] + 1].counter[y[2]] = partition[y[1] + 1].counter[y[2]]
     \* the value returned is 0 exactly when the slot reached zero: the
     \* caller puts the state on the remove list for a returned 0
     /\ (qq \in Range(partition'[b + 1].remove[a])) <=> (rows[row].vals[k] = 1)

\* C39: a split makes the new block share the rows of its parent and changes
\* no count; a decr through one block takes one from the count of the
\* addressed slot as read through that block and changes no count read
\* through another block: a row with refCount > 1 is left as it is but for
\* its refCount, one less, and the block gets a clone with refCount 1, the
\* master and the addressed slot one less and the other slots copied; decr
\* returns 0 exactly when the addressed slot reached zero.
C39_CopyOnWrite ==
  [][/\ simPc' # "aborted"
     /\ SplitShares
     /\ (Len(partition') = Len(partition) /\ simPc' = "sharing") =>
           \E x \in Slots : DecrThrough(x)]_vars

\* two blocks came to different rows for a label, with different counts for
\* a state, and the state is on the remove list of the block that reached 0
C39_Witness ==
  /\ simPc = "sharing"
  /\ \E b1 \in BlockIds : \E b2 \in BlockIds : \E a \in LtsLabels : \E qq \in Delta1(a) :
        /\ partition[b1 + 1].counter[a] # 0
        /\ partition[b2 + 1].counter[a] # 0
        /\ partition[b1 + 1].counter[a] # partition[b2 + 1].counter[a]
        /\ CounterValue(b1, a, qq) = 0
        /\ CounterValue(b2, a, qq) > 0
        /\ qq \in Range(partition[b1 + 1].remove[a])
        /\ qq \notin Range(partition[b2 + 1].remove[a])

(***************************************************************************)
(* Claims about the worklist.                                              *)
(***************************************************************************)
\* how often the pair (b, a) is in the worklist wl
QueueCount(wl, b, a) == Cardinality({i \in 1..Len(wl) : wl[i] = <<b, a>>})

\* a pair is in the worklist once if its remove list is there, else not at all
WorklistExact(st) ==
  \A b \in 0..(Len(st.partition) - 1) : \A a \in LtsLabels :
     QueueCount(st.queue, b, a) = IF st.partition[b + 1].remove[a] # <<>> THEN 1 ELSE 0

\* processRemove after block->_remove[label] = nullptr (lines 559-561)
RemoveTaken == [SimState EXCEPT !.partition[tmp[1] + 1].remove[tmp[2]] = <<>>]

\* the blocks the split of processRemove makes
SplitClones == Len(partition)..(Len(SplitStage.partition) - 1)

\* the block the states of the clone nb were in
CloneParent(nb) == index[Head(SplitStage.partition[nb + 1].states)]

\* at the head of the loop of run, and with the popped pair between
\* pop_back and processRemove
WorklistInRun ==
  /\ simPc # "aborted"
  /\ simPc \in {"run", "done"} => WorklistExact(SimState)
  /\ simPc = "remove" =>
       /\ partition[tmp[1] + 1].remove[tmp[2]] # <<>>
       /\ QueueCount(queue, tmp[1], tmp[2]) = 0
       /\ WorklistExact(RemoveTaken)
       /\ WorklistExact(SplitStage)

\* C40 as stated: the worklist holds a pair once exactly when its remove list
\* is not null, the popped pair finds its remove list, and a block made by
\* split has a copy of every remove list its parent has pending.
C40_AsStated ==
  /\ WorklistInRun
  /\ simPc = "remove" =>
       \A nb \in SplitClones : \A a \in LtsLabels :
          SplitStage.partition[nb + 1].remove[a] =
            RemoveTaken.partition[CloneParent(nb) + 1].remove[a]

\* C40: at the head of each iteration of run the pair (B, a) is in the
\* worklist once if the remove list of B for a is not null and not at all
\* otherwise; the popped pair is off the worklist and finds its remove list
\* (no assertion fails); after the split of processRemove the same holds
\* again, a block made by split having a copy of the remove list its parent
\* has pending for each label of the new block's inset, with a worklist entry
\* of its own, and no remove list for the other labels.
C40_WorklistInvariant ==
  /\ WorklistInRun
  /\ simPc = "remove" =>
       \A nb \in SplitClones : \A a \in LtsLabels :
          SplitStage.partition[nb + 1].remove[a] =
            IF SplitStage.partition[nb + 1].inset[a] > 0
            THEN RemoveTaken.partition[CloneParent(nb) + 1].remove[a]
            ELSE <<>>

\* the split of this processRemove makes a block that takes a copy of a
\* pending remove list of its parent, with a worklist entry of its own
C40_Witness ==
  /\ simPc = "remove"
  /\ \E nb \in SplitClones : \E a \in LtsLabels :
        /\ SplitStage.partition[nb + 1].remove[a] # <<>>
        /\ SplitStage.partition[nb + 1].remove[a] =
             RemoveTaken.partition[CloneParent(nb) + 1].remove[a]
        /\ QueueCount(SplitStage.queue, nb, a) = 1
        /\ QueueCount(SplitStage.queue, CloneParent(nb), a) = 1

=============================================================================
